---- MODULE Spec2Model ----
(***************************************************************************)
(* A model of the content pipeline of Case1/app: the controller's          *)
(* run_pipeline and the agents it sequences (trend analysis, content       *)
(* understanding, content generation, quality control, finalization).      *)
(*                                                                         *)
(* Text is modelled by TLA+ strings, one model character per source        *)
(* character.  The module is written in ASCII, so the non-ASCII characters *)
(* of the source's string constants are written with stand-ins of the same *)
(* character class (the class decides everything the code does with a      *)
(* character: str.strip, str.lower, the regular expressions):              *)
(*    O-umlaut/o-umlaut  Q/q      U-umlaut/u-umlaut  X/x                   *)
(*    S-cedilla/s-cedilla J/j     c-cedilla 1   g-breve 2   dotless-i 3    *)
(*    any character in the ranges of emoji_pattern            *            *)
(*    any other non-ASCII symbol (bullet, U+1F91D)            +            *)
(* None of the stand-ins occurs as itself in the source's constants.       *)
(***************************************************************************)
EXTENDS Integers, Sequences, FiniteSets, TLC

VARIABLES
    pc,        \* position of the controller inside run_pipeline
    env,       \* what the world outside the core answers during the run
    results,   \* run_pipeline's results dictionary
    fs,        \* the files the run has written below its output directory
    call       \* one call to a pure function of an agent: arguments, returns

vars == <<pc, env, results, fs, call>>

(***************************************************************************)
(* Python values                                                           *)
(***************************************************************************)

\* Python's None where the code expects a str (a JSON null, a missing path).
None == "<None>"

\* s[i] (1-based) as a one-character string.
Char(s, i) == SubSeq(s, i, i)

\* s[lo-1:hi] for the 1-based positions lo..hi, empty when there are none
Slice(s, lo, hi) == IF hi < lo THEN "" ELSE SubSeq(s, lo, hi)

\* s[:n + 1]: the cut keeps one character too many
PrefixOneMore(s, n) == IF Len(s) > n THEN SubSeq(s, 1, n + 1) ELSE s

\* s[:n]
Prefix(s, n) == IF Len(s) > n THEN SubSeq(s, 1, n) ELSE s

RECURSIVE RepStr(_, _)
\* the string c * n
RepStr(c, n) ==
    IF n <= 0 THEN ""
    ELSE LET half == RepStr(c, n \div 2)
         IN  IF n % 2 = 0 THEN half \o half ELSE half \o half \o c

UpperLetters == "ABCDEFGHIJKLMNOPQRSTUVWXYZ"
LowerLetters == "abcdefghijklmnopqrstuvwxyz"
Digits == "0123456789"

CharsOf(s) == {Char(s, i) : i \in 1..Len(s)}

\* the characters str.strip() removes
WhiteSpace == {" ", "\n", "\t", "\r"}

UpperChars == CharsOf(UpperLetters)

\* the characters \w matches (re.UNICODE is the default for str patterns)
WordChars == UpperChars \cup CharsOf(LowerLetters) \cup CharsOf(Digits) \cup {"_"}

\* the characters of a hashtag that re.sub(r'[^#\w]', '', tag) keeps
TagChars == WordChars \cup {"#"}

\* the characters emoji_pattern matches
EmojiChars == {"*"}

LowerOf ==
    [c \in UpperChars |->
        Char(LowerLetters, CHOOSE i \in 1..Len(UpperLetters) : Char(UpperLetters, i) = c)]

\* str.lower() of one character
LowerChar(c) == IF c \in UpperChars THEN LowerOf[c] ELSE c

RECURSIVE Lower(_)
\* str.lower(), one half of the string after the other
Lower(s) ==
    IF Len(s) <= 1 THEN LowerChar(s)
    ELSE LET half == Len(s) \div 2
         IN  Lower(SubSeq(s, 1, half)) \o Lower(SubSeq(s, half + 1, Len(s)))

\* str.startswith(p)
StartsWith(s, p) == Len(s) >= Len(p) /\ SubSeq(s, 1, Len(p)) = p

\* p in s
Contains(s, p) == \E i \in 1..(Len(s) - Len(p) + 1) : SubSeq(s, i, i + Len(p) - 1) = p

\* str.lstrip(): only the leading white space goes
StripLeading(s) ==
    IF \A i \in 1..Len(s) : Char(s, i) \in WhiteSpace THEN ""
    ELSE SubSeq(s, CHOOSE i \in 1..Len(s) :
                      /\ Char(s, i) \notin WhiteSpace
                      /\ \A j \in 1..(i - 1) : Char(s, j) \in WhiteSpace, Len(s))

RECURSIVE FirstKept(_, _)
\* the first position from i on that holds no white space (Len(s) + 1 if none)
FirstKept(s, i) ==
    IF i > Len(s) \/ Char(s, i) \notin WhiteSpace THEN i ELSE FirstKept(s, i + 1)

RECURSIVE LastKept(_, _)
\* the last position up to i that holds no white space (0 if none)
LastKept(s, i) ==
    IF i < 1 \/ Char(s, i) \notin WhiteSpace THEN i ELSE LastKept(s, i - 1)

\* str.strip()
Strip(s) == Slice(s, FirstKept(s, 1), LastKept(s, Len(s)))

RECURSIVE Filter(_, _)
\* s without the characters outside keep
Filter(s, keep) ==
    IF Len(s) <= 1 THEN (IF s \in keep THEN s ELSE "")
    ELSE LET half == Len(s) \div 2
         IN  Filter(SubSeq(s, 1, half), keep) \o Filter(SubSeq(s, half + 1, Len(s)), keep)

RECURSIVE SplitAt(_, _, _)
\* the pieces of s from position from on, between the characters of seps
SplitAt(s, seps, from) ==
    LET found == {i \in from..Len(s) : Char(s, i) \in seps}
    IN  IF found = {} THEN <<Slice(s, from, Len(s))>>
        ELSE LET next == CHOOSE i \in found : \A j \in found : i <= j
             IN  <<Slice(s, from, next - 1)>> \o SplitAt(s, seps, next + 1)

\* str.split(sep)
SplitOn(s, sep) == SplitAt(s, {sep}, 1)

\* str.split(): split at white space, no empty pieces
SplitWords(s) == SelectSeq(SplitAt(s, WhiteSpace, 1), LAMBDA piece : piece # "")

RECURSIVE Join(_, _)
\* sep.join(parts)
Join(parts, sep) ==
    IF parts = <<>> THEN ""
    ELSE IF Len(parts) = 1 THEN parts[1]
    ELSE parts[1] \o sep \o Join(Tail(parts), sep)

\* the elements of a list, as a set
Range(q) == {q[i] : i \in 1..Len(q)}

\* q[:n] of a list
Take(q, n) == IF Len(q) > n THEN SubSeq(q, 1, n) ELSE q

(***************************************************************************)
(* QualityControlAgent.validate_text                                       *)
(***************************************************************************)

title_max == 60
caption_max == 2200
hashtag_max == 12
hashtag_min == 5

generic_tags == << "#gaming", "#mobilegame", "#game", "#oyun", "#mobile" >>

TitleTruncated == "Title truncated to 60 chars"
CaptionTruncated == "Caption truncated to 2200 chars"
\* f"High emoji density: {emoji_count} emojis"
HighEmojiDensity(n) == "High emoji density: " \o ToString(n) \o " emojis"
HashtagsLimited == "Hashtags limited to 12"
AddedGeneric == "Added generic hashtags to meet minimum of 5"
Inappropriate == "Potentially inappropriate content detected"

\* len(emoji_pattern.findall(s)): the maximal runs of emoji characters
emoji_count(s) ==
    Cardinality({i \in 1..Len(s) :
        /\ Char(s, i) \in EmojiChars
        /\ (i = 1 \/ Char(s, i - 1) \notin EmojiChars)})

\* re.sub(r'[^#\w]', '', tag) after the '#' prefix is ensured
clean_tag(tag) ==
    Filter(IF StartsWith(tag, "#") THEN tag ELSE "#" \o tag, TagChars)

RECURSIVE clean_loop_case_sensitive(_, _, _)
\* the loop with seen_tags holding the tags as written, not lowered
clean_loop_case_sensitive(hashtags, clean, seen) ==
    IF hashtags = <<>> THEN <<clean, seen>>
    ELSE LET tag == clean_tag(Head(hashtags))
         IN  IF tag \notin seen /\ Len(tag) > 1
             THEN clean_loop_case_sensitive(Tail(hashtags), Append(clean, tag), seen \cup {tag})
             ELSE clean_loop_case_sensitive(Tail(hashtags), clean, seen)

RECURSIVE clean_loop(_, _, _)
\* the loop over the input hashtags: <<clean_hashtags, seen_tags>>
clean_loop(hashtags, clean, seen) ==
    IF hashtags = <<>> THEN <<clean, seen>>
    ELSE LET tag == clean_tag(Head(hashtags))
             tag_lower == Lower(tag)
         IN  IF tag_lower \notin seen /\ Len(tag) > 1
             THEN clean_loop(Tail(hashtags), Append(clean, tag), seen \cup {tag_lower})
             ELSE clean_loop(Tail(hashtags), clean, seen)

RECURSIVE add_generic(_, _, _)
\* the loop over generic_tags when fewer than hashtag_min tags are left
add_generic(generic, clean, seen) ==
    IF generic = <<>> THEN clean
    ELSE LET tag == Head(generic)
         IN  IF Lower(tag) \notin seen /\ Len(clean) < hashtag_min
             THEN add_generic(Tail(generic), Append(clean, tag), seen \cup {Lower(tag)})
             ELSE add_generic(Tail(generic), clean, seen)

\* re.search(word, s, re.IGNORECASE) at position i
MatchAt(s, i, word) ==
    /\ i + Len(word) - 1 <= Len(s)
    /\ LowerChar(Char(s, i)) = Char(word, 1)
    /\ Lower(SubSeq(s, i, i + Len(word) - 1)) = word

IsWordAt(s, i) == i >= 1 /\ i <= Len(s) /\ Char(s, i) \in WordChars

banned_words == {"spam", "scam", "hack", "cheat", "crack"}
banned_urls == {"http", "https", "www.", "bit.ly"}
mention_min == 15

\* the characters a match of one of banned_patterns can start with
banned_starts ==
    {c \in WordChars \cup {"@"} :
        LowerChar(c) \in {Char(w, 1) : w \in banned_words \cup banned_urls} \cup {"@"}}

\* re.search(pattern, clean_caption, re.IGNORECASE) finds a match at position i
banned_at(s, i) ==
    \/ \E w \in banned_words :
          /\ MatchAt(s, i, w)
          /\ ~IsWordAt(s, i - 1)
          /\ ~IsWordAt(s, i + Len(w))
    \/ \E u \in banned_urls : MatchAt(s, i, u)
    \/ /\ Char(s, i) = "@"
       /\ i + mention_min <= Len(s)
       /\ \A k \in 1..mention_min : IsWordAt(s, i + k)

\* the screen with the first of banned_patterns alone
banned_word_match(s) ==
    \E i \in 1..Len(s) : \E w \in banned_words :
        MatchAt(s, i, w) /\ ~IsWordAt(s, i - 1) /\ ~IsWordAt(s, i + Len(w))

\* any of banned_patterns is found in the caption
banned_match(s) ==
    \E i \in 1..Len(s) : Char(s, i) \in banned_starts /\ banned_at(s, i)

validate_text_raises(title, caption, hashtags) ==
    title = None \/ caption = None

validate_text(title, caption, hashtags) ==
    LET stripped_title == Strip(title)
        clean_title == Prefix(stripped_title, title_max)
        stripped_caption == Strip(caption)
        clean_caption == Prefix(stripped_caption, caption_max)
        n_emoji == emoji_count(clean_caption)
        looped == clean_loop(hashtags, <<>>, {})
        clean_hashtags ==
            IF Len(looped[1]) > hashtag_max THEN Take(looped[1], hashtag_max)
            ELSE IF Len(looped[1]) < hashtag_min
                 THEN add_generic(generic_tags, looped[1], looped[2])
                 ELSE looped[1]
        issues ==
            (IF Len(stripped_title) > title_max THEN <<TitleTruncated>> ELSE <<>>)
            \o (IF Len(stripped_caption) > caption_max THEN <<CaptionTruncated>> ELSE <<>>)
            \o (IF n_emoji * 50 > Len(clean_caption) THEN <<HighEmojiDensity(n_emoji)>> ELSE <<>>)
            \o (IF Len(looped[1]) > hashtag_max THEN <<HashtagsLimited>>
                ELSE IF Len(looped[1]) < hashtag_min THEN <<AddedGeneric>> ELSE <<>>)
            \o (IF banned_match(clean_caption) THEN <<Inappropriate>> ELSE <<>>)
    IN  [title |-> clean_title,
         caption |-> clean_caption,
         hashtags |-> clean_hashtags,
         issues |-> issues,
         is_valid |-> issues = <<>>,
         metrics |-> [title_length |-> Len(clean_title),
                      caption_length |-> Len(clean_caption),
                      hashtag_count |-> Len(clean_hashtags),
                      emoji_count |-> n_emoji]]

(***************************************************************************)
(* FinalizationAgent.rank_hashtags                                         *)
(***************************************************************************)

trend_window == 10
trend_take == 3
niche_take == 2
brand_take == 2
ranked_max == 12

brand_words == {"game", "oyun", "mobile", "mobil"}
niche_words == {"rpg", "mmo", "pvp", "fps", "strategy"}

\* [h for h in q if keep(h)]
Select(q, keep(_)) == SelectSeq(q, keep)

\* the buckets with the trend match made on the tag as written only
bucket_case_sensitive(tag, trending_tags) ==
    LET tag_lower == Lower(tag)
    IN  IF tag \in trending_tags THEN "trend"
        ELSE IF \E word \in brand_words : Contains(tag_lower, word) THEN "brand"
        ELSE IF \E word \in niche_words : Contains(tag_lower, word) THEN "niche"
        ELSE "general"

\* the bucket the categorising loop puts a tag into
bucket(tag, trending_tags) ==
    LET tag_lower == Lower(tag)
    IN  IF \E t \in trending_tags : Lower(t) = tag_lower THEN "trend"
        ELSE IF \E word \in brand_words : Contains(tag_lower, word) THEN "brand"
        ELSE IF \E word \in niche_words : Contains(tag_lower, word) THEN "niche"
        ELSE "general"

\* the ranking without its last loop
append_nothing(hashtags, ordered) == ordered

RECURSIVE append_missing(_, _)
\* for tag in hashtags: if tag not in ordered: ordered.append(tag)
append_missing(hashtags, ordered) ==
    IF hashtags = <<>> THEN ordered
    ELSE append_missing(Tail(hashtags),
            IF Head(hashtags) \in Range(ordered) THEN ordered
            ELSE Append(ordered, Head(hashtags)))

\* a ranking that puts the trend hashtags themselves first
rank_hashtags_adds_trending(hashtags, trend_data) ==
    LET trending ==
            IF "hashtags" \in DOMAIN trend_data
            THEN Take(trend_data.hashtags, trend_take) ELSE <<>>
    IN  Take(append_missing(hashtags, trending), ranked_max)

rank_hashtags(hashtags, trend_data) ==
    LET trending_tags ==
            IF "hashtags" \in DOMAIN trend_data
            THEN Range(Take(trend_data.hashtags, trend_window)) ELSE {}
        in_bucket(b) == Select(hashtags, LAMBDA h : bucket(h, trending_tags) = b)
        ordered1 == Take(in_bucket("trend"), trend_take)
        ordered2 == ordered1 \o
            Take(Select(in_bucket("niche"), LAMBDA h : h \notin Range(ordered1)), niche_take)
        ordered3 == ordered2 \o
            Take(Select(in_bucket("brand"), LAMBDA h : h \notin Range(ordered2)), brand_take)
        ordered4 == ordered3 \o
            Select(in_bucket("general"), LAMBDA h : h \notin Range(ordered3))
    IN  Take(append_missing(hashtags, ordered4), ranked_max)

(***************************************************************************)
(* TrendAnalysisAgent.  A score is held in tenths (score 62.5 is 625), so   *)
(* that 0.7 * recent + 0.3 * monthly and the steps of 0.5 stay integers.   *)
(***************************************************************************)

keyword_cap == 50
keyword_min_len == 2
batch_size == 5
top_cut == 15
hashtag_cut == 20
score_base == 500
short_len == 5
short_bonus == 200
medium_len == 8
medium_bonus == 100
gaming_bonus == 150
letter_step == 5
score_max == 1000
recent_weight == 7
monthly_weight == 3
variation_score == 500
more_variation_score == 700

gaming_terms == {"game", "play", "mobile", "online", "rpg", "fps", "mmo", "pvp"}

sample_keywords ==
    << "mobile game", "rpg", "action", "adventure", "strategy",
       "puzzle", "casual", "multiplayer", "online", "battle" >>

default_hashtags == << "#mobilegame", "#gaming", "#game", "#play", "#fun" >>

\* the characters re.sub(r'[^\w\s-]', '', cleaned) keeps
KeywordChars == WordChars \cup WhiteSpace \cup {"-"}

RECURSIVE Collapse(_, _, _)
\* re.sub(r'\s+', ' ', s) for the positions lo..hi of s: a run of white
\* space gives one blank, at its first character
Collapse(s, lo, hi) ==
    IF hi < lo THEN ""
    ELSE IF lo = hi
    THEN (IF Char(s, lo) \notin WhiteSpace THEN Char(s, lo)
          ELSE IF lo > 1 /\ Char(s, lo - 1) \in WhiteSpace THEN "" ELSE " ")
    ELSE LET mid == (lo + hi) \div 2
         IN  Collapse(s, lo, mid) \o Collapse(s, mid + 1, hi)

normalize_keyword(keyword) ==
    LET cleaned == Filter(Lower(Strip(keyword)), KeywordChars)
    IN  Collapse(cleaned, 1, Len(cleaned))

normalize_keywords(keywords) ==
    LET limited == Take(keywords, keyword_cap)
        cleaned == [i \in 1..Len(limited) |-> normalize_keyword(limited[i])]
    IN  SelectSeq(cleaned, LAMBDA k : Len(k) > keyword_min_len)

\* ord(c) of a character a normalized keyword can start with.  A normalized
\* keyword holds no ASCII capital, so in one Q, X and J stand for the
\* letters o and u with diaeresis and s with cedilla (246, 252, 351).
Ord(c) ==
    IF c = "Q" THEN 246
    ELSE IF c = "X" THEN 252
    ELSE IF c = "J" THEN 351
    ELSE IF c \in CharsOf(LowerLetters)
    THEN 96 + (CHOOSE i \in 1..Len(LowerLetters) : Char(LowerLetters, i) = c)
    ELSE IF c \in CharsOf(Digits)
    THEN 47 + (CHOOSE i \in 1..Len(Digits) : Char(Digits, i) = c)
    ELSE IF c = "_" THEN 95
    ELSE IF c = "-" THEN 45
    ELSE 32

ord_a == 97

\* the score without the bonus for a gaming term
_fallback_score_no_terms(keyword) ==
    LET length_bonus ==
            IF Len(keyword) <= short_len THEN short_bonus
            ELSE IF Len(keyword) <= medium_len THEN medium_bonus ELSE 0
        base_score == score_base + length_bonus
                      + (Ord(Char(keyword, 1)) - ord_a) * letter_step
    IN  IF base_score < 0 THEN 0 ELSE IF base_score > score_max THEN score_max ELSE base_score

_fallback_score(keyword) ==
    LET length_bonus ==
            IF Len(keyword) <= short_len THEN short_bonus
            ELSE IF Len(keyword) <= medium_len THEN medium_bonus ELSE 0
        term_bonus ==
            IF \E term \in gaming_terms : Contains(keyword, term) THEN gaming_bonus ELSE 0
        base_score == score_base + length_bonus + term_bonus
                      + (Ord(Char(keyword, 1)) - ord_a) * letter_step
    IN  IF base_score < 0 THEN 0 ELSE IF base_score > score_max THEN score_max ELSE base_score

fallback_scores(keywords) ==
    [i \in 1..Len(keywords) |-> <<keywords[i], _fallback_score(keywords[i])>>]

\* The answer of the provider for one batch: raised tells that a call or the
\* scoring raised, scored how many keywords of the batch had their score
\* appended before, recent and monthly the means of the two time windows.
batch_scores(batch, answer) ==
    LET weighted == [i \in 1..Len(batch) |->
            <<batch[i], recent_weight * answer.recent[i] + monthly_weight * answer.monthly[i]>>]
    IN  IF answer.raised
        THEN Take(weighted, answer.scored) \o fallback_scores(batch)
        ELSE weighted

RECURSIVE batch_loop(_, _, _)
\* for i in range(0, len(keywords), 5), from the batch numbered n on
batch_loop(keywords, answers, n) ==
    IF keywords = <<>> THEN <<>>
    ELSE batch_scores(Take(keywords, batch_size), answers[n])
         \o batch_loop(SubSeq(keywords, Len(Take(keywords, batch_size)) + 1, Len(keywords)),
                       answers, n + 1)

RECURSIVE insert_by_score(_, _)
\* the place of entry in a list sorted by descending score, after its equals
insert_by_score(sorted, entry) ==
    IF sorted = <<>> THEN <<entry>>
    ELSE IF Head(sorted)[2] >= entry[2]
         THEN <<Head(sorted)>> \o insert_by_score(Tail(sorted), entry)
         ELSE <<entry>> \o sorted

RECURSIVE sort_by_score(_, _)
\* scores.sort(key=lambda x: x[1], reverse=True): stable
sort_by_score(scores, sorted) ==
    IF scores = <<>> THEN sorted
    ELSE sort_by_score(Tail(scores), insert_by_score(sorted, Head(scores)))

\* get_trend_scores; pytrends tells whether self.pytrends is set
get_trend_scores(pytrends, keywords, answers) ==
    LET scores ==
            IF pytrends /\ keywords # <<>>
            THEN batch_loop(keywords, answers, 1)
            ELSE fallback_scores(keywords)
    IN  Take(sort_by_score(scores, <<>>), top_cut)

RECURSIVE Without(_, _)
\* s.replace(c, '') for every c of drop
Without(s, drop) ==
    IF Len(s) <= 1 THEN (IF s \in drop THEN "" ELSE s)
    ELSE LET half == Len(s) \div 2
         IN  Without(SubSeq(s, 1, half), drop) \o Without(SubSeq(s, half + 1, Len(s)), drop)

\* hashtags.add(tag), the set kept in insertion order
add_tag(tags, tag) == IF tag \in Range(tags) THEN tags ELSE Append(tags, tag)

hashtags_of(keyword, score) ==
    LET clean_kw == Without(keyword, {" ", "-"})
    IN  <<"#" \o clean_kw>>
        \o (IF score > variation_score
            THEN <<"#" \o clean_kw \o "game", "#mobile" \o clean_kw>> ELSE <<>>)
        \o (IF score > more_variation_score
            THEN <<"#" \o clean_kw \o "gaming", "#" \o clean_kw \o "tr">> ELSE <<>>)

RECURSIVE add_tags(_, _)
add_tags(tags, new) ==
    IF new = <<>> THEN tags ELSE add_tags(add_tag(tags, Head(new)), Tail(new))

RECURSIVE hashtag_loop(_, _)
\* for keyword, score in keywords: ... if len(hashtags) >= 20: break
hashtag_loop(keywords, tags) ==
    IF keywords = <<>> THEN tags
    ELSE LET added == add_tags(tags, hashtags_of(Head(keywords)[1], Head(keywords)[2]))
         IN  IF Len(added) >= hashtag_cut THEN added ELSE hashtag_loop(Tail(keywords), added)

Reverse(q) == [i \in 1..Len(q) |-> q[Len(q) + 1 - i]]

Rotate(q, r) ==
    IF q = <<>> THEN q
    ELSE [i \in 1..Len(q) |-> q[((i - 1 + r) % Len(q)) + 1]]

\* list(hashtags): the iteration order of a set of str is not fixed; order
\* says which of the orders considered the run of the interpreter produced
set_order(tags, order) ==
    IF order.reversed THEN Reverse(Rotate(tags, order.rotated)) ELSE Rotate(tags, order.rotated)

generate_hashtags(keywords, order) ==
    Take(set_order(hashtag_loop(keywords, <<>>), order), hashtag_cut)

\* the keywords read from the file: split at ',' if there is one, else at '\n'
read_keywords(content) ==
    IF Contains(content, ",") THEN SplitOn(content, ",") ELSE SplitOn(content, "\n")

\* analyze whose handler also takes the failure to read the keyword file
analyze_read_failure_is_error(aso_keywords_path, world) ==
    IF world.trend_fault \/ aso_keywords_path = None \/ ~world.readable
    THEN [status |-> "error",
          error |-> "Exception",
          keywords_analyzed |-> 0,
          top_keywords |-> <<>>,
          hashtags |-> default_hashtags,
          summary |-> "Trend analysis failed, using default hashtags"]
    ELSE LET normalized == normalize_keywords(read_keywords(world.content))
             scored == get_trend_scores(world.pytrends, normalized, world.answers)
             hashtags == generate_hashtags(scored, world.order)
         IN  [status |-> "success",
              keywords_analyzed |-> Len(normalized),
              top_keywords |-> [i \in 1..Len(scored) |->
                                  [keyword |-> scored[i][1], score |-> scored[i][2]]],
              hashtags |-> hashtags,
              summary |-> ""]

\* TrendAnalysisAgent.analyze.  world: readable and content describe the
\* keyword file, pytrends the provider, answers its answers per batch,
\* order the iteration order of the hashtag set, trend_fault an error that
\* reaches the handler of analyze.
\* TrendAnalysisAgent.analyze; open() fails on a None path or an unreadable file
analyze(aso_keywords_path, world) ==
    LET keywords == IF aso_keywords_path # None /\ world.readable
                    THEN read_keywords(world.content) ELSE sample_keywords
        normalized == normalize_keywords(keywords)
        scored == get_trend_scores(world.pytrends, normalized, world.answers)
        hashtags == generate_hashtags(scored, world.order)
    IN  IF world.trend_fault
        THEN [status |-> "error",
              error |-> "Exception",
              keywords_analyzed |-> 0,
              top_keywords |-> <<>>,
              hashtags |-> default_hashtags,
              summary |-> "Trend analysis failed, using default hashtags"]
        ELSE [status |-> "success",
              keywords_analyzed |-> Len(normalized),
              top_keywords |-> [i \in 1..Len(scored) |->
                                  [keyword |-> scored[i][1], score |-> scored[i][2]]],
              hashtags |-> hashtags,
              summary |-> "Analyzed " \o ToString(Len(normalized)) \o " keywords, identified "
                          \o ToString(Len(scored)) \o " trending terms, generated "
                          \o ToString(Len(hashtags)) \o " hashtags"]

(***************************************************************************)
(* ContentGenerationAgent                                                  *)
(***************************************************************************)

Template1Title ==
    "* En Yeni Mobil Oyun Deneyimi!"
Template1Caption ==
    "* Muhtejem bir oyun deneyimi sizi bekliyor!\n"
    \o "\n"
    \o "Bu oyunda neler var?\n"
    \o "* Etkileyici grafikler ve gqrsel efektler\n"
    \o "* Sxrxkleyici oynan3j mekanikleri  \n"
    \o "* Rekabet1i 1ok oyunculu modlar\n"
    \o "* Benzersiz sanat tasar3m3\n"
    \o "\n"
    \o "Oyunun qne 13kan qzellikleri:\n"
    \o "+ Kolay q2renilir, ustalajmas3 zor oynan3j\n"
    \o "+ Dxzenli i1erik gxncellemeleri\n"
    \o "+ Aktif oyuncu toplulu2u\n"
    \o "+ Free-to-play model\n"
    \o "\n"
    \o "Hemen indir ve maceraya kat3l! *\n"
    \o "Arkadajlar3n3 etiketle ve birlikte oynay3n! *\n"
    \o "\n"
    \o "* Jimdi xcretsiz indir!"
Template1Hashtags ==
    << "#mobiloyun", "#oyun", "#gaming", "#mobilegaming", "#yenioyun", "#txrkiyegaming",
       "#oyunsever", "#mobilgame", "#gametr", "#oyunqnerisi", "#xcretsizoyun", "#e2lence" >>
Template2Title ==
    "* Ka13r3lmayacak Oyun F3rsat3!"
Template2Caption ==
    "* Bu oyunu mutlaka denemelisiniz!\n"
    \o "\n"
    \o "Neden bu oyun?\n"
    \o "* Qzgxn hikaye ve karakterler\n"
    \o "** Aksiyon dolu sahneler\n"
    \o "** Genij kejif alanlar3\n"
    \o "* Qdxllendirici ilerleme sistemi\n"
    \o "\n"
    \o "Oyuncular ne diyor?\n"
    \o "\"Y3l3n en iyi mobil oyunu!\" *****\n"
    \o "\"Ba23ml3l3k yap3yor!\" \n"
    \o "\"Grafikler muhtejem!\"\n"
    \o "\n"
    \o "Qzel qzellikler:\n"
    \o "+ PvP ve PvE modlar3\n"
    \o "+ Klan sistemi ve tak3m savajlar3\n"
    \o "+ Haftal3k etkinlikler ve turnuvalar\n"
    \o "+ Kijisellejtirilebilir karakterler\n"
    \o "\n"
    \o "Sen de bu e2lenceye kat3l! *\n"
    \o "Yorumlarda dxjxncelerini paylaj! *\n"
    \o "\n"
    \o "* Hemen oynamaya bajla!"
Template2Hashtags ==
    << "#oyuntavsiyesi", "#mobiloyunlar", "#gameoftheday", "#oyunzaman3", "#txrkoyun", "#gamer",
       "#mobilegamer", "#yenioyunlar", "#oyundxnyas3", "#gaming", "#oyuncu", "#mobilgaming" >>
Template3Title ==
    "* Mobil Oyun Dxnyas3n3n Yeni Y3ld3z3!"
Template3Caption ==
    "* Herkesin konujtu2u oyun burada!\n"
    \o "\n"
    \o "Oyunun bxyxleyici dxnyas3:\n"
    \o "* Epik maceralar ve gqrevler\n"
    \o "* Efsanevi yarat3klar ve bosslar\n"
    \o "* Gx1lx yetenekler ve bxyxler\n"
    \o "* Gxnlxk qdxller ve sxrprizler\n"
    \o "\n"
    \o "Neler yapabilirsiniz?\n"
    \o "+ Kendi kahraman3n3z3 yarat3n\n"
    \o "+ Arkadajlar3n3zla guild kurun\n"
    \o "+ Dxnya 1ap3nda oyuncularla yar3j3n\n"
    \o "+ Ejsiz itemler toplay3n\n"
    \o "\n"
    \o "Topluluk qzellikleri:\n"
    \o "* Canl3 sohbet sistemi\n"
    \o "+ Tak3m kurma ve ijbirli2i\n"
    \o "* Liderlik tablolar3\n"
    \o "* Haftal3k challengelar\n"
    \o "\n"
    \o "Maceran3z bajlas3n! *\n"
    \o "Hangi seviyeye ulajabilirsiniz? *\n"
    \o "\n"
    \o "** Xcretsiz indirin ve oynay3n!"
Template3Hashtags ==
    << "#mobilegame", "#oyunlar", "#gamingcommunity", "#oyunajk3", "#mobiloyunum", "#gamerlife",
       "#oyunba23ml3s3", "#newgame", "#txrkgamer", "#oyunqnerisi", "#mobilegames", "#oyuntxrkiye" >>

templates ==
    << [title |-> Template1Title, caption |-> Template1Caption, hashtags |-> Template1Hashtags],
       [title |-> Template2Title, caption |-> Template2Caption, hashtags |-> Template2Hashtags],
       [title |-> Template3Title, caption |-> Template3Caption, hashtags |-> Template3Hashtags] >>

\* the hashtags of a candidate built from a response that is not JSON, and of
\* a synthesized placeholder
fixed_hashtags ==
    << "#mobiloyun", "#gaming", "#oyun", "#game", "#txrkiye", "#yenioyun",
       "#mobilegaming", "#gamer", "#oyunqnerisi", "#gametr", "#mobilgame", "#oyuntxrkiye" >>

placeholder_caption ==
    "Bu harika oyunu kejfedin! E2lenceli oynan3j, muhtejem grafikler ve daha fazlas3 "
    \o "sizi bekliyor. Hemen indirin ve oynamaya bajlay3n! * #oyun"

candidates_wanted == 3
trending_mix == 5
template_mix == 7
generated_hashtag_max == 12
heuristic_title_max == 60
heuristic_caption_max == 2200

\* random.sample(templates, 3): the orders it can return
SampleOrders ==
    {<<1, 2, 3>>, <<1, 3, 2>>, <<2, 1, 3>>, <<2, 3, 1>>, <<3, 1, 2>>, <<3, 2, 1>>}

\* fallback_generation, given the order random.sample drew
fallback_generation(trend_data, sample) ==
    LET selected == [i \in 1..Len(sample) |-> templates[sample[i]]]
    IN  IF "hashtags" \in DOMAIN trend_data
        THEN LET trending_tags == Take(trend_data.hashtags, trending_mix)
             IN  [i \in 1..Len(selected) |->
                    [selected[i] EXCEPT !.hashtags =
                        Take(trending_tags \o Take(@, template_mix), generated_hashtag_max)]]
        ELSE selected

\* the Markdown code fence: three backquotes, each written ^ here
Fence == "^^^"

\* the Markdown code fence is cut off before the text is parsed
strip_fence(result) ==
    IF StartsWith(result, Fence \o "json") THEN Slice(result, 8, Len(result) - 3)
    ELSE IF StartsWith(result, Fence) THEN Slice(result, 4, Len(result) - 3)
    ELSE result

required_keys == {"title", "caption", "hashtags"}

\* A response of the provider: text is what generate_with_openai returned
\* (None after a failed call), parsed what json.loads makes of it:
\* kind "invalid" (JSONDecodeError), "object", "array", "string" or "scalar";
\* keys are the names the 'in' tests find in it; tags is "list" (of str),
\* "str" or "other" for the type of its hashtags value.
has_text(response) == response.text # None /\ response.text # ""

\* handling the parsed value raises TypeError or AttributeError
parse_raises(response) ==
    LET p == response.parsed
    IN  \/ p.kind = "scalar"
        \/ p.kind \in {"array", "string"} /\ required_keys \subseteq p.keys
        \/ p.kind = "object" /\ required_keys \subseteq p.keys /\ p.tags = "other"

\* the candidate appended for a response, <<>> if none is appended
candidate_of(response) ==
    LET p == response.parsed
        result == strip_fence(response.text)
        lines == SplitOn(result, "\n")
    IN  IF p.kind = "object" /\ required_keys \subseteq p.keys
        THEN LET listed == IF p.tags = "str" THEN SplitWords(p.hashtags_text) ELSE p.hashtags
                 tagged == [i \in 1..Len(listed) |->
                              IF StartsWith(listed[i], "#") THEN listed[i] ELSE "#" \o listed[i]]
             IN  << [title |-> p.title, caption |-> p.caption,
                     hashtags |-> Take(tagged, generated_hashtag_max)] >>
        ELSE IF p.kind = "invalid"
        THEN << [title |-> Prefix(lines[1], heuristic_title_max),
                 caption |-> IF Len(lines) > 2
                             THEN Prefix(Join(SubSeq(lines, 2, Len(lines) - 1), "\n"),
                                         heuristic_caption_max)
                             ELSE Prefix(result, heuristic_caption_max),
                 hashtags |-> fixed_hashtags] >>
        ELSE <<>>

RECURSIVE request_loop(_, _, _)
\* for i in range(3): <<candidates, raised>>
request_loop(responses, i, candidates) ==
    IF i > candidates_wanted THEN <<candidates, FALSE>>
    ELSE IF ~has_text(responses[i]) THEN request_loop(responses, i + 1, candidates)
    ELSE IF parse_raises(responses[i]) THEN <<candidates, TRUE>>
    ELSE request_loop(responses, i + 1, candidates \o candidate_of(responses[i]))

placeholder(n) ==
    [title |-> "* Muhtejem Oyun Deneyimi #" \o ToString(n),
     caption |-> placeholder_caption,
     hashtags |-> fixed_hashtags]

RECURSIVE fill_placeholders(_)
\* while len(candidates) < 3: candidates.append(...)
fill_placeholders(candidates) ==
    IF Len(candidates) >= candidates_wanted THEN candidates
    ELSE fill_placeholders(Append(candidates, placeholder(Len(candidates) + 1)))

\* generate without the fallback templates and the placeholders: only what
\* the provider's replies gave
generate_provider_only(client, responses, sample, trend_data) ==
    LET looped == IF client THEN request_loop(responses, 1, <<>>) ELSE << <<>>, FALSE >>
    IN  [status |-> IF looped[2] THEN "error" ELSE "success",
         candidates |-> Take(looped[1], candidates_wanted),
         generation_method |-> IF client /\ ~looped[2] THEN "openai" ELSE "fallback",
         summary |-> "Generated 3 post candidates successfully"]

\* generate whose handler keeps the candidates gathered before the error
generate_keeps_partial(client, responses, sample, trend_data) ==
    LET looped == IF client THEN request_loop(responses, 1, <<>>) ELSE << <<>>, FALSE >>
        fallback_posts == fallback_generation(trend_data, sample)
    IN  IF looped[2]
        THEN [status |-> "error",
              error |-> "TypeError",
              candidates |-> looped[1],
              generation_method |-> "fallback",
              summary |-> "Generation failed, using fallback templates"]
        ELSE [status |-> "success",
              candidates |-> Take(fill_placeholders(
                                looped[1] \o Take(fallback_posts, candidates_wanted - Len(looped[1]))),
                                candidates_wanted),
              generation_method |-> IF client THEN "openai" ELSE "fallback",
              summary |-> "Generated 3 post candidates successfully"]

\* ContentGenerationAgent.generate; client tells whether self.client is set
generate(client, responses, sample, trend_data) ==
    LET looped == IF client THEN request_loop(responses, 1, <<>>) ELSE << <<>>, FALSE >>
        fallback_posts == fallback_generation(trend_data, sample)
        extended ==
            IF Len(looped[1]) < candidates_wanted
            THEN looped[1] \o Take(fallback_posts, candidates_wanted - Len(looped[1]))
            ELSE looped[1]
    IN  IF looped[2]
        THEN [status |-> "error",
              error |-> "TypeError",
              candidates |-> Take(fallback_posts, candidates_wanted),
              generation_method |-> "fallback",
              summary |-> "Generation failed, using fallback templates"]
        ELSE [status |-> "success",
              candidates |-> Take(fill_placeholders(extended), candidates_wanted),
              generation_method |-> IF client THEN "openai" ELSE "fallback",
              summary |-> "Generated 3 post candidates successfully"]

(***************************************************************************)
(* Paths and files.  A file of the screenshot directory is a record        *)
(* [name, readable, width, height]; readable tells whether PIL opens it.   *)
(***************************************************************************)

\* os.path.join(a, b)
PathJoin(a, b) == a \o "/" \o b

\* os.path.basename(p)
Basename(p) == LET parts == SplitOn(p, "/") IN parts[Len(parts)]

\* str.endswith(suffix)
EndsWith(s, suffix) ==
    Len(s) >= Len(suffix) /\ SubSeq(s, Len(s) - Len(suffix) + 1, Len(s)) = suffix

package_extensions == {".jpg", ".jpeg", ".png"}
caption_extensions == {".jpg", ".jpeg", ".png", ".bmp", ".gif"}

\* file.lower().endswith(extensions)
HasExtension(name, extensions) == \E e \in extensions : EndsWith(Lower(name), e)

(***************************************************************************)
(* ContentUnderstandingAgent.analyze.  The captioning, transcript and      *)
(* video collaborators are outside the core: their texts are fixed here.   *)
(***************************************************************************)

caption_limit == 20
caption_summary == 5

no_video ==
    [file |-> None, duration |-> 0, transcript |-> "No video available for analysis",
     frame_captions |-> <<>>]

no_text == [summary |-> "No game description available", word_count |-> 0]

\* analyze_screenshots: one entry per image file of the directory; a directory
\* that cannot be listed is handled inside and gives the one "error" entry
analyze_screenshots(screenshot_dir, files, listdir_ok, blip) ==
    LET image_files == Take(SelectSeq(files, LAMBDA f : HasExtension(f.name, caption_extensions)),
                            caption_limit)
        captioned == [i \in 1..Len(image_files) |->
            [file |-> image_files[i].name,
             caption |-> IF ~blip THEN "Image captioning unavailable"
                         ELSE IF image_files[i].readable THEN "a screenshot of a game"
                         ELSE "Failed to caption image",
             path |-> PathJoin(screenshot_dir, image_files[i].name)]]
    IN  IF ~listdir_ok
        THEN << [file |-> "error",
                 caption |-> "Screenshot analysis failed: OSError",
                 path |-> None] >>
        ELSE IF captioned = <<>>
        THEN << [file |-> "no_images_found",
                 caption |-> "No screenshot images available for analysis",
                 path |-> None] >>
        ELSE captioned

\* ContentUnderstandingAgent.analyze; blip tells whether the BLIP model is loaded
understand(inputs, world, blip) ==
    LET screenshot_analysis == analyze_screenshots(inputs.screenshot_dir, world.files, world.listdir_ok, blip)
    IN  IF world.understand_fault
        THEN [status |-> "error",
              error |-> "Exception",
              screenshots |-> [count |-> 0, captions |-> <<>>],
              video |-> [file |-> None, duration |-> 0, transcript |-> "", frame_captions |-> <<>>],
              text |-> [summary |-> "", word_count |-> 0],
              full_data |-> [empty |-> TRUE]]
        ELSE [status |-> "success",
              screenshots |-> [count |-> Len(screenshot_analysis),
                               captions |-> Take(screenshot_analysis, caption_summary)],
              video |-> no_video,
              text |-> no_text,
              full_data |-> [all_screenshot_captions |-> screenshot_analysis]]

(***************************************************************************)
(* QualityControlAgent.process_images and check_quality                    *)
(***************************************************************************)

min_width == 1080
min_height == 1350
image_cap == 10
quality_full == 100
issue_penalty == 10

\* the file of the screenshot directory a path names
FileAt(world, path) ==
    CHOOSE f \in Range(world.files) : f.name = Basename(path)

\* validate_image: an image that cannot be opened needs everything
validate_image(file) ==
    IF file.readable
    THEN [is_valid |-> file.width >= min_width /\ file.height >= min_height,
          needs_resize |-> ~(file.width = min_width /\ file.height = min_height),
          \* abs(width / height - 4 / 5) > 0.05
          needs_padding |-> LET d == 20 * file.width - 16 * file.height
                            IN  (IF d < 0 THEN -d ELSE d) > file.height]
    ELSE [is_valid |-> FALSE, needs_resize |-> TRUE, needs_padding |-> TRUE]

\* os.path.exists(path): the files of the world are the files there are
Exists(world, path) == \E f \in Range(world.files) : f.name = Basename(path)

target_width == 1080
target_height == 1350

\* resize_image_to_instagram up to img.save, for an image that opened: the
\* size it scales the image to, the padding before it on the padded axis,
\* and the size of the image it saves.  Image.resize rejects a size with a
\* side of 0 (ValueError), which sends the function to its handler.
resize_image(width, height) ==
    LET off == 5 * width - 4 * height
        \* abs(img_ratio - target_ratio) < 0.01
        same_ratio == 20 * (IF off < 0 THEN -off ELSE off) < height
        new_height == (target_width * height) \div width
        new_width == (target_height * width) \div height
    IN  IF same_ratio
        THEN [raised |-> FALSE, scaled |-> <<target_width, target_height>>, padding |-> 0,
              size |-> <<target_width, target_height>>]
        ELSE IF off > 0
        THEN [raised |-> new_height = 0, scaled |-> <<target_width, new_height>>,
              padding |-> (target_height - new_height) \div 2,
              size |-> <<target_width, target_height>>]
        ELSE [raised |-> new_width = 0, scaled |-> <<new_width, target_height>>,
              padding |-> (target_width - new_width) \div 2,
              size |-> <<target_width, target_height>>]

\* What process_images does with one image: whether it skips it (the path
\* names no file), the path it appends, the file it writes (None if none)
\* with its size, and whether it raises.  resize_image_to_instagram handles
\* its own failures: it copies the original, and returns the original's
\* path when the copy fails too.
process_image(path, output_dir, world) ==
    LET file == FileAt(world, path)
        validation == validate_image(file)
        output_path == PathJoin(output_dir, "processed_" \o Basename(path))
        Did(raised, appended, written, how) ==
            [skipped |-> FALSE, raised |-> raised, appended |-> appended,
             written |-> written, how |-> how,
             size |-> IF how = "resized" THEN resize_image(file.width, file.height).size
                      ELSE <<file.width, file.height>>]
    IN  IF ~Exists(world, path)
        THEN [skipped |-> TRUE, raised |-> FALSE, appended |-> None, written |-> None,
              how |-> "none", size |-> <<0, 0>>]
        ELSE IF validation.needs_resize \/ validation.needs_padding
        THEN IF file.readable /\ ~resize_image(file.width, file.height).raised
             THEN Did(FALSE, output_path, output_path, "resized")
             ELSE IF world.copy_ok
             THEN Did(FALSE, output_path, output_path, "copied")
             ELSE Did(FALSE, path, None, "none")
        ELSE IF world.copy_ok
             THEN Did(FALSE, output_path, output_path, "copied")
             ELSE Did(TRUE, None, None, "none")

RECURSIVE image_loop(_, _, _, _)
\* for image_path in image_paths: [processed, written, raised]
image_loop(image_paths, output_dir, world, done) ==
    IF image_paths = <<>> THEN done
    ELSE LET one == process_image(Head(image_paths), output_dir, world)
         IN  IF one.skipped THEN image_loop(Tail(image_paths), output_dir, world, done)
             ELSE IF one.raised THEN [done EXCEPT !.raised = TRUE]
             ELSE image_loop(Tail(image_paths), output_dir, world,
                    [done EXCEPT !.processed = Append(@, one.appended),
                                 !.written = IF one.written = None THEN @
                                             ELSE @ \cup {[path |-> one.written, how |-> one.how,
                                                           source |-> Head(image_paths),
                                                           size |-> one.size]}])

process_images(image_paths, output_dir, world) ==
    IF ~world.images_mkdir_ok
    THEN [processed |-> <<>>, written |-> {}, raised |-> TRUE]
    ELSE image_loop(image_paths, output_dir, world,
                    [processed |-> <<>>, written |-> {}, raised |-> FALSE])

validated_candidate(candidate) ==
    LET validation == validate_text(candidate.title, candidate.caption, candidate.hashtags)
    IN  [original |-> candidate,
         validated |-> [title |-> validation.title,
                        caption |-> validation.caption,
                        hashtags |-> validation.hashtags],
         validation_issues |-> validation.issues,
         metrics |-> validation.metrics,
         is_valid |-> validation.is_valid]

RECURSIVE Sum(_)
Sum(q) == IF q = <<>> THEN 0 ELSE Head(q) + Sum(Tail(q))

\* check_quality raises inside its try block
check_quality_raises(candidates, image_paths, output_base, world) ==
    \/ process_images(Take(image_paths, image_cap), PathJoin(output_base, "images"), world).raised
    \/ \E i \in 1..Len(candidates) :
          validate_text_raises(candidates[i].title, candidates[i].caption, candidates[i].hashtags)

check_quality(candidates, image_paths, output_base, world) ==
    LET images_output_dir == PathJoin(output_base, "images")
        processed_images == process_images(Take(image_paths, image_cap), images_output_dir, world)
        validated_candidates == [i \in 1..Len(candidates) |-> validated_candidate(candidates[i])]
        total_issues == Sum([i \in 1..Len(candidates) |->
                                Len(validated_candidates[i].validation_issues)])
        quality_score == IF quality_full - total_issues * issue_penalty < 0 THEN 0
                         ELSE quality_full - total_issues * issue_penalty
    IN  IF check_quality_raises(candidates, image_paths, output_base, world)
        THEN [status |-> "error",
              error |-> "Exception",
              processed_images |-> [count |-> 0, paths |-> <<>>, output_dir |-> None],
              validated_candidates |-> <<>>,
              quality_score |-> 0,
              summary |-> "Quality control failed: Exception"]
        ELSE [status |-> "success",
              processed_images |-> [count |-> Len(processed_images.processed),
                                    paths |-> processed_images.processed,
                                    output_dir |-> images_output_dir],
              validated_candidates |-> validated_candidates,
              quality_score |-> quality_score,
              summary |-> "Processed " \o ToString(Len(processed_images.processed))
                          \o " images, validated " \o ToString(Len(candidates))
                          \o " candidates, quality score: " \o ToString(quality_score) \o "%"]

\* the image files process_images leaves in the images directory, whether
\* check_quality ends in its handler or not
images_written(image_paths, output_base, world) ==
    process_images(Take(image_paths, image_cap), PathJoin(output_base, "images"), world).written

(***************************************************************************)
(* FinalizationAgent                                                       *)
(***************************************************************************)

trending_summary == 10
recommended_summary == 15

\* the post options with the validated hashtags left as they came
post_options_unranked(validated_candidates, trend_results) ==
    [i \in 1..Len(validated_candidates) |->
        [option_number |-> i,
         title |-> validated_candidates[i].validated.title,
         caption |-> validated_candidates[i].validated.caption,
         hashtags |-> validated_candidates[i].validated.hashtags,
         metrics |-> validated_candidates[i].metrics,
         quality_notes |-> validated_candidates[i].validation_issues]]

post_options_of(validated_candidates, trend_results) ==
    [i \in 1..Len(validated_candidates) |->
        [option_number |-> i,
         title |-> validated_candidates[i].validated.title,
         caption |-> validated_candidates[i].validated.caption,
         hashtags |-> rank_hashtags(validated_candidates[i].validated.hashtags, trend_results),
         metrics |-> validated_candidates[i].metrics,
         quality_notes |-> validated_candidates[i].validation_issues]]

\* the document create_final_json writes (the metadata's clock time left out)
create_final_json(trend_results, understanding_results, quality_results) ==
    [metadata |-> [pipeline_version |-> "1.0.0",
                   quality_score |-> quality_results.quality_score],
     trend_info |-> [keywords_analyzed |-> trend_results.keywords_analyzed,
                     top_trending |-> Take(trend_results.top_keywords, trending_summary),
                     recommended_hashtags |-> Take(trend_results.hashtags, recommended_summary)],
     understanding_brief |-> [screenshots |-> understanding_results.screenshots.count,
                              video_duration |-> understanding_results.video.duration,
                              text_words |-> understanding_results.text.word_count],
     post_options |-> post_options_of(quality_results.validated_candidates, trend_results),
     assets |-> [images_dir |-> quality_results.processed_images.output_dir,
                 images_count |-> quality_results.processed_images.count,
                 image_files |-> [i \in 1..Len(quality_results.processed_images.paths) |->
                                     Basename(quality_results.processed_images.paths[i])]],
     recommendations |-> [best_option |-> 1]]

\* Where finalize stops: "json" when writing final_post.json raises, "zip"
\* when the archive cannot be opened, "images" when os.path.exists(images_dir)
\* raises TypeError on None (the archive then holds the JSON alone), "" when
\* it returns its success result.
finalize_stops(quality_results, world) ==
    IF ~world.json_write_ok THEN "json"
    ELSE IF ~world.zip_write_ok THEN "zip"
    ELSE IF quality_results.processed_images.output_dir = None THEN "images"
    ELSE ""

\* What create_package_zip leaves in the archive: the JSON, the files of the
\* images directory with a packaged extension (os.walk gives them in no fixed
\* order, so a set), and the README unless it stopped before.
archive_of(stops, images_dir_paths) ==
    [json |-> TRUE,
     images |-> IF stops = "images" THEN {}
                ELSE {PathJoin("images", Basename(f)) :
                        f \in {g \in images_dir_paths : HasExtension(g, package_extensions)}},
     readme |-> stops # "images"]

finalize(quality_results, output_base, world) ==
    IF finalize_stops(quality_results, world) # ""
    THEN [status |-> "error",
          error |-> "Exception",
          final_json_path |-> None,
          package_zip_path |-> None,
          outputs_directory |-> output_base,
          summary |-> "Finalization failed: Exception"]
    ELSE [status |-> "success",
          final_json_path |-> PathJoin(output_base, "final_post.json"),
          package_zip_path |-> PathJoin(output_base, "final_package.zip"),
          outputs_directory |-> output_base,
          summary |-> "Successfully created final package with "
                      \o ToString(quality_results.processed_images.count)
                      \o " images and 3 post options"]

(***************************************************************************)
(* ContentPipeline.run_pipeline.  env is what the run meets: the keyword   *)
(* file, the screenshot directory, which providers were loaded when the    *)
(* agents were built, what the providers answer, and which file-system     *)
(* calls fail.  results is the dictionary run_pipeline builds and returns, *)
(* its 'stages' kept as the sequence of entries in insertion order.  fs    *)
(* maps each path the run has written to what is there.                    *)
(***************************************************************************)

StageNames ==
    <<"input_preparation", "trend_analysis", "content_understanding",
      "content_generation", "quality_control", "finalization">>

\* d[k] = v on a dictionary
SetKey(d, k, v) == [x \in DOMAIN d \cup {k} |-> IF x = k THEN v ELSE d[x]]

\* the stage put in front of the recorded ones instead of behind them
RecordPrepended(res, name, result) ==
    [res EXCEPT !.stages = <<[name |-> name, result |-> result]>> \o @]

\* results['stages'][name] = result
Record(res, name, result) ==
    [res EXCEPT !.stages = Append(@, [name |-> name, result |-> result])]

\* results['stages'][name]
StageOf(res, name) ==
    res.stages[CHOOSE i \in 1..Len(res.stages) : res.stages[i].name = name].result

\* results['stages'][name] after the stage it was handed to changed it in place
Restage(res, name, result) ==
    [res EXCEPT !.stages = [i \in 1..Len(@) |->
        IF @[i].name = name THEN [name |-> name, result |-> result] ELSE @[i]]]

\* the trend dictionary had fallback_generation mixed the template's hashtags
\* into trend_data['hashtags'] itself
left_by_generate_mixed(trend_data) ==
    [trend_data EXCEPT !.hashtags = Take(@ \o Take(templates[1].hashtags, template_mix),
                                         generated_hashtag_max)]

\* The trend dictionary as generate leaves it.  run_pipeline hands the
\* dictionary recorded in results['stages'] itself to the later stages, so
\* whatever a stage did to it in place would show in the results.
\* create_prompt and fallback_generation only read it and slice its lists.
left_by_generate(trend_data) == trend_data

\* The trend dictionary as finalize leaves it: rank_hashtags builds a set of
\* a slice of its hashtags, create_final_json reads it with get and slices.
left_by_finalize(trend_results) == trend_results

output_base_of(world) == PathJoin("./outputs", "run-" \o world.timestamp)

drive_base == "./temp_drive_data"

\* prepare_inputs raises: the ValueError of drive mode without credentials,
\* or whatever the download or the creation of the default paths raises
prepare_inputs_error(world) ==
    IF world.mode = "drive" /\ ~world.creds
    THEN "Drive credentials and folder ID required for drive mode"
    ELSE IF ~world.prepare_ok THEN "OSError"
    ELSE None

prepare_inputs(world) ==
    IF world.mode = "drive"
    THEN [gameplay_dir |-> PathJoin(drive_base, "Gameplay"),
          screenshot_dir |-> PathJoin(drive_base, "screenshot"),
          aso_file |-> IF world.aso_found THEN PathJoin(drive_base, "asokeywords.txt") ELSE None,
          game_file |-> None]
    ELSE [gameplay_dir |-> "./Gameplay",
          screenshot_dir |-> "./screenshot",
          aso_file |-> "./asokeywords.txt",
          game_file |-> "./game.txt"]

RECURSIVE add_paths(_, _)
\* if item['path'] not in image_paths: image_paths.append(item['path'])
add_paths(image_paths, items) ==
    IF items = <<>> THEN image_paths
    ELSE add_paths(IF Head(items).path # None /\ Head(items).path \notin Range(image_paths)
                   THEN Append(image_paths, Head(items).path) ELSE image_paths,
                   Tail(items))

\* the image paths run_pipeline collects for quality control
collect_image_paths(inputs, understanding_results, world) ==
    LET listed == SelectSeq(world.files, LAMBDA f : HasExtension(f.name, package_extensions))
        image_paths == [i \in 1..Len(listed) |-> PathJoin(inputs.screenshot_dir, listed[i].name)]
        screenshot_data ==
            IF "all_screenshot_captions" \in DOMAIN understanding_results.full_data
            THEN understanding_results.full_data.all_screenshot_captions ELSE <<>>
    IN  add_paths(image_paths, screenshot_data)

\* except Exception as e: results['status'] = 'failed'; results['error'] = str(e)
Failed(res, error) == SetKey([res EXCEPT !.status = "failed"], "error", error)

\* Path(output_base).mkdir(parents=True, exist_ok=True); results = {...}
MakeOutputDir ==
    /\ pc = "start"
    /\ IF env.mkdir_ok
       THEN /\ fs' = SetKey(fs, output_base_of(env), [kind |-> "dir"])
            /\ results' = [status |-> "started",
                           output_directory |-> output_base_of(env),
                           timestamp |-> env.timestamp,
                           mode |-> env.mode,
                           stages |-> <<>>]
            /\ pc' = "input_preparation"
       ELSE /\ pc' = "raised"
            /\ UNCHANGED <<fs, results>>
    /\ UNCHANGED <<env, call>>

\* Stage 1
PrepareInputs ==
    /\ pc = "input_preparation"
    /\ IF prepare_inputs_error(env) # None
       THEN /\ results' = Failed(results, prepare_inputs_error(env))
            /\ pc' = "returned"
       ELSE /\ results' = Record(results, "input_preparation",
                                 [status |-> "success", inputs |-> prepare_inputs(env)])
            /\ pc' = "trend_analysis"
    /\ UNCHANGED <<env, fs, call>>

\* Stage 2
TrendAnalysis ==
    /\ pc = "trend_analysis"
    /\ results' = Record(results, "trend_analysis",
                         analyze(StageOf(results, "input_preparation").inputs.aso_file, env))
    /\ pc' = "content_understanding"
    /\ UNCHANGED <<env, fs, call>>

\* Stage 3
ContentUnderstanding ==
    /\ pc = "content_understanding"
    /\ results' = Record(results, "content_understanding",
                         understand(StageOf(results, "input_preparation").inputs, env, env.blip))
    /\ pc' = "content_generation"
    /\ UNCHANGED <<env, fs, call>>

\* Stage 4
ContentGeneration ==
    /\ pc = "content_generation"
    /\ results' = Record(Restage(results, "trend_analysis",
                                 left_by_generate(StageOf(results, "trend_analysis"))),
                         "content_generation",
                         generate(env.client, env.responses, env.sample,
                                  StageOf(results, "trend_analysis")))
    /\ pc' = "quality_control"
    /\ UNCHANGED <<env, fs, call>>

RECURSIVE WriteAll(_, _)
WriteAll(files, written) ==
    IF written = {} THEN files
    ELSE LET w == CHOOSE w \in written : TRUE
         IN  WriteAll(SetKey(files, w.path, [kind |-> "image", how |-> w.how, source |-> w.source]),
                      written \ {w})

\* Stage 5: os.listdir in the collection of the image paths is inside
\* run_pipeline's try block; check_quality handles its own failures
QualityControl ==
    /\ pc = "quality_control"
    /\ IF ~env.listdir_ok
       THEN /\ results' = Failed(results, "OSError")
            /\ pc' = "returned"
            /\ fs' = fs
       ELSE LET image_paths ==
                    collect_image_paths(StageOf(results, "input_preparation").inputs,
                                        StageOf(results, "content_understanding"), env)
                candidates == StageOf(results, "content_generation").candidates
                output_base == results.output_directory
            IN  /\ results' = Record(results, "quality_control",
                                     check_quality(candidates, image_paths, output_base, env))
                /\ fs' = IF env.images_mkdir_ok
                         THEN WriteAll(SetKey(fs, PathJoin(output_base, "images"), [kind |-> "dir"]),
                                       images_written(image_paths, output_base, env))
                         ELSE fs
                /\ pc' = "finalization"
    /\ UNCHANGED <<env, call>>

\* the paths of the files in a directory
FilesIn(files, dir) == {p \in DOMAIN files : StartsWith(p, dir \o "/")}

\* Stage 6, and the lines after it: the overall status and final_outputs
Finalization ==
    /\ pc = "finalization"
    /\ LET trend_results == StageOf(results, "trend_analysis")
           understanding_results == StageOf(results, "content_understanding")
           quality_results == StageOf(results, "quality_control")
           output_base == results.output_directory
           finalization_results == finalize(quality_results, output_base, env)
           stops == finalize_stops(quality_results, env)
           with_json ==
               IF stops = "json" THEN fs
               ELSE SetKey(fs, PathJoin(output_base, "final_post.json"),
                           [kind |-> "json",
                            data |-> create_final_json(trend_results, understanding_results,
                                                       quality_results)])
           images_dir == quality_results.processed_images.output_dir
           with_zip ==
               IF stops \in {"json", "zip"} THEN with_json
               ELSE SetKey(with_json, PathJoin(output_base, "final_package.zip"),
                           [kind |-> "zip",
                            archive |-> archive_of(stops,
                                IF images_dir = None THEN {} ELSE FilesIn(fs, images_dir))])
       IN  /\ fs' = with_zip
           /\ results' =
                SetKey([Record(Restage(results, "trend_analysis",
                                       left_by_finalize(trend_results)),
                               "finalization", finalization_results)
                            EXCEPT !.status = "completed"],
                       "final_outputs",
                       [json_path |-> finalization_results.final_json_path,
                        package_path |-> finalization_results.package_zip_path,
                        outputs_directory |-> output_base])
    /\ pc' = "returned"
    /\ UNCHANGED <<env, call>>

(***************************************************************************)
(* The runs explored.  Bounds first, then the values each part of env is   *)
(* drawn from.                                                             *)
(***************************************************************************)

\* how far the iteration order of the hashtag set is rotated
MaxRotate == 1
\* how many keyword batches the trend provider is asked for
MaxBatches == 2
\* length of the title of an over-long provider reply, beyond title_max
MaxOver == 1

\* keyword files: comma separated, line separated, repeated and empty entries
KeywordFiles ==
    {"rpg, Action Game\npuzzle", "war\nrpg\n\nwar\nZombie-Run!", ""}

SteadyAnswer ==
    [raised |-> FALSE, scored |-> 0,
     recent |-> <<80, 60, 40, 20, 0>>, monthly |-> <<50, 50, 50, 50, 50>>]

\* the provider raises after the scores of two keywords of the batch are in
BrokenAnswer == [SteadyAnswer EXCEPT !.raised = TRUE, !.scored = 2]

AnswerLists == [1..MaxBatches -> {SteadyAnswer, BrokenAnswer}]

SetOrders == [rotated : 0..MaxRotate, reversed : BOOLEAN]

SmallShot == [name |-> "shot1.jpg", readable |-> TRUE, width |-> 800, height |-> 600]
ExactShot == [name |-> "shot2.PNG", readable |-> TRUE, width |-> 1080, height |-> 1350]
BitmapShot == [name |-> "shot3.bmp", readable |-> TRUE, width |-> 1080, height |-> 1920]
BrokenShot == [name |-> "shot4.jpeg", readable |-> FALSE, width |-> 0, height |-> 0]
Notes == [name |-> "notes.txt", readable |-> FALSE, width |-> 0, height |-> 0]

\* the listings of the screenshot directory
FileLists == {<<>>, <<SmallShot>>, <<ExactShot, Notes, BitmapShot, BrokenShot>>}

Unparsed ==
    [kind |-> "invalid", keys |-> {}, title |-> "", caption |-> "",
     hashtags |-> <<>>, hashtags_text |-> "", tags |-> "list"]

\* a reply that is a JSON object with the three keys
JsonReply(title, caption, hashtags) ==
    [text |-> "{}",
     parsed |-> [Unparsed EXCEPT !.kind = "object", !.keys = required_keys, !.title = title,
                                 !.caption = caption, !.hashtags = hashtags]]

ManyTags ==
    <<"#rpg", "battle", "#fun", "#war", "#puzzle", "#hero", "#arena",
      "#quest", "#loot", "#guild", "#raid", "#boss", "#clan", "#pvp">>

NoReply == [text |-> None, parsed |-> Unparsed]
GoodReply == JsonReply("Epic Battle", "Join the fight today", <<"#rpg", "battle", "#fun">>)
LongTitleReply ==
    JsonReply(RepStr("T", title_max + MaxOver), "Join the fight today", <<"#rpg">>)
ManyTagsReply == JsonReply("Epic Battle", "Join the fight today", ManyTags)
StringTagsReply ==
    [text |-> "{}",
     parsed |-> [Unparsed EXCEPT !.kind = "object", !.keys = required_keys,
                                 !.title = "Epic Battle", !.caption = "Join the fight today",
                                 !.hashtags_text = "rpg #battle  fun", !.tags = "str"]]
NullTitleReply == JsonReply(None, "Join the fight today", <<"#rpg">>)
OtherTagsReply ==
    [text |-> "{}",
     parsed |-> [Unparsed EXCEPT !.kind = "object", !.keys = required_keys,
                                 !.title = "Epic Battle", !.caption = "Join the fight today",
                                 !.tags = "other"]]
PartialReply ==
    [text |-> "{}", parsed |-> [Unparsed EXCEPT !.kind = "object", !.keys = {"title"}]]
ScalarReply == [text |-> "5", parsed |-> [Unparsed EXCEPT !.kind = "scalar"]]
ArrayReply == [text |-> "[]", parsed |-> [Unparsed EXCEPT !.kind = "array"]]
FencedReply ==
    [text |-> Fence \o "json\nEpic Battle\nJoin the fight\ntoday\n#rpg #fun\n" \o Fence,
     parsed |-> Unparsed]
PlainReply ==
    [text |-> RepStr("T", heuristic_title_max + MaxOver), parsed |-> Unparsed]

LinesReply ==
    [text |-> "Epic Battle\nJoin the fight\ntoday", parsed |-> Unparsed]

Replies ==
    <<NoReply, GoodReply, LongTitleReply, ManyTagsReply, StringTagsReply, NullTitleReply,
      OtherTagsReply, PartialReply, ScalarReply, ArrayReply, FencedReply, PlainReply,
      LinesReply>>

\* the three replies of a run are the same kind, or one kind after two good ones
ReplyLists ==
    {<<Replies[i], Replies[i], Replies[i]>> : i \in 1..Len(Replies)}
    \cup {<<GoodReply, GoodReply, Replies[i]>> : i \in 1..Len(Replies)}

\* a run with the default local inputs, no provider loaded and nothing failing
Calm ==
    [timestamp |-> "20250101-120000",
     mkdir_ok |-> TRUE,
     mode |-> "local", creds |-> FALSE, aso_found |-> TRUE, prepare_ok |-> TRUE,
     readable |-> TRUE, content |-> "rpg, Action Game\npuzzle",
     pytrends |-> FALSE, answers |-> [n \in 1..MaxBatches |-> SteadyAnswer],
     order |-> [rotated |-> 0, reversed |-> FALSE], trend_fault |-> FALSE,
     blip |-> FALSE, files |-> <<SmallShot>>, listdir_ok |-> TRUE, understand_fault |-> FALSE,
     client |-> FALSE, responses |-> <<NoReply, NoReply, NoReply>>, sample |-> <<1, 2, 3>>,
     images_mkdir_ok |-> TRUE, copy_ok |-> TRUE,
     json_write_ok |-> TRUE, zip_write_ok |-> TRUE]

\* every combination of failing steps, with no provider loaded and with all
\* loaded and a reply whose title quality control cannot handle
FaultWorlds ==
    {[Calm EXCEPT !.mkdir_ok = f[1], !.prepare_ok = f[2], !.trend_fault = f[3],
                  !.understand_fault = f[4], !.listdir_ok = f[5], !.images_mkdir_ok = f[6],
                  !.json_write_ok = f[7], !.zip_write_ok = f[8],
                  !.pytrends = f[9], !.blip = f[9], !.client = f[9],
                  !.responses = IF f[9] THEN <<GoodReply, NullTitleReply, GoodReply>> ELSE @] :
        f \in [1..9 -> BOOLEAN]}

\* every way the inputs are prepared
ModeWorlds ==
    {[Calm EXCEPT !.mode = "drive", !.creds = m[1], !.aso_found = m[2], !.prepare_ok = m[3],
                  !.pytrends = m[4]] :
        m \in [1..4 -> BOOLEAN]}

\* every combination of loaded providers, with what they answer
ProviderWorlds ==
    {[Calm EXCEPT !.pytrends = p[1], !.client = p[2], !.blip = p[3],
                  !.answers = IF p[1] THEN a ELSE @,
                  !.responses = IF p[2] THEN r ELSE @] :
        p \in [1..3 -> BOOLEAN], a \in AnswerLists, r \in ReplyLists}

\* the inputs of a run without providers
InputWorlds ==
    {[Calm EXCEPT !.readable = rd, !.content = IF rd THEN c ELSE @, !.order = o, !.files = fl,
                  !.copy_ok = cp, !.sample = s] :
        rd \in BOOLEAN, c \in KeywordFiles, o \in SetOrders, fl \in FileLists,
        cp \in BOOLEAN, s \in SampleOrders}

Worlds == FaultWorlds \cup ModeWorlds \cup ProviderWorlds \cup InputWorlds

Init ==
    /\ pc = "start"
    /\ env \in Worlds
    /\ results = <<>>
    /\ fs = <<>>
    /\ call = <<>>

Next ==
    \/ MakeOutputDir
    \/ PrepareInputs
    \/ TrendAnalysis
    \/ ContentUnderstanding
    \/ ContentGeneration
    \/ QualityControl
    \/ Finalization

Spec == Init /\ [][Next]_vars

(***************************************************************************)
(* Calls of validate_text on bounded inputs                                *)
(***************************************************************************)

\* how many blanks and trailing letters surround the body of a title
MaxPad == 1
\* how many freely chosen hashtags start an input list
MaxShortTags == 2
\* how many distinct well-formed hashtags may follow them
MaxLongTags == 13

Idle ==
    /\ pc = "idle"
    /\ env = <<>>
    /\ results = <<>>
    /\ fs = <<>>

\* a run of letters between optional blanks, with an optional blank inside
Padded(limitRuns) ==
    {RepStr(" ", l) \o RepStr("a", k) \o g \o RepStr("b", m) \o RepStr(" ", t) :
        l \in 0..MaxPad, k \in limitRuns, g \in {"", " "}, m \in 0..MaxPad, t \in 0..MaxPad}

TitleInputs == Padded({0, 1} \cup ((title_max - 2)..(title_max + 1)))

CaptionInputs ==
    {RepStr("a", k) \o g \o RepStr("b", m) :
        k \in {caption_max - 1, caption_max, caption_max + 1}, g \in {"", " "}, m \in 0..MaxPad}
    \cup {RepStr("a", 2300), " " \o RepStr("a", caption_max + 1) \o " "}
    \cup {"", " ok ", "**a", "a*a*" \o RepStr("b", 96), "free hack now", "Hackers", "HACK!",
          "see www.x.io", "hi @" \o RepStr("u", mention_min), "hi @" \o RepStr("u", mention_min - 1),
          "free hack now www.x.io", "spam scam http"}

TagUniverse ==
    {"#rpg", "#RPG", "rpg", "#r pg!", "#gaming", "#Game", "mobile", "#oyun",
     "#", "!", "", "a#b"}

LongTags ==
    << "#t01", "#t02", "#t03", "#t04", "#t05", "#t06", "#t07", "#t08",
       "#t09", "#t10", "#t11", "#t12", "#t13", "#t14", "#t15", "#t16" >>

RECURSIVE ListsUpTo(_, _)
\* the lists of at most n elements of U
ListsUpTo(U, n) ==
    IF n = 0 THEN {<<>>}
    ELSE LET shorter == ListsUpTo(U, n - 1)
         IN  shorter \cup {Append(q, u) : q \in shorter, u \in U}

HashtagInputs ==
    {short \o Take(LongTags, n) : short \in ListsUpTo(TagUniverse, MaxShortTags), n \in 0..MaxLongTags}

ValidateInputs ==
    {<<t, "ok", <<"#rpg">> >> : t \in TitleInputs}
    \cup {<<"title", c, <<"#rpg">> >> : c \in CaptionInputs}
    \cup {<<"title", "ok", h>> : h \in HashtagInputs}
    \cup {<<t, c, <<"#rpg">> \o h>> :
            t \in {"title", "free hack www.x.io"}, c \in {"ok", "free hack now www.x.io"},
            h \in {<<>>, <<"#hack", "#spam">>}}

InitValidate ==
    /\ Idle
    /\ call \in {[fn |-> "validate_text", title |-> a[1], caption |-> a[2],
                  hashtags |-> a[3], rets |-> <<>>] : a \in ValidateInputs}

\* validate_text(title, caption, hashtags)
CallValidateText ==
    /\ call.fn = "validate_text"
    /\ call.rets = <<>>
    /\ call' = [call EXCEPT !.rets = <<validate_text(call.title, call.caption, call.hashtags)>>]
    /\ UNCHANGED <<pc, env, results, fs>>

\* validate_text on the title, caption and hashtags the first call returned
CallValidateTextAgain ==
    /\ call.fn = "validate_text"
    /\ Len(call.rets) = 1
    /\ call' = [call EXCEPT !.rets = Append(@,
                    validate_text(call.rets[1].title, call.rets[1].caption, call.rets[1].hashtags))]
    /\ UNCHANGED <<pc, env, results, fs>>

NextValidate == CallValidateText \/ CallValidateTextAgain

SpecValidate == InitValidate /\ [][NextValidate]_vars

(***************************************************************************)
(* Calls of ContentGenerationAgent.generate on bounded inputs              *)
(***************************************************************************)

\* a trend bundle with the given hashtags
Bundle(tags) ==
    [status |-> "success", keywords_analyzed |-> Len(tags), top_keywords |-> <<>>,
     hashtags |-> tags, summary |-> ""]

TrendBundles ==
    {Bundle(<<>>), Bundle(<<"#rpg", "#puzzle">>), Bundle(default_hashtags),
     Bundle(Take(LongTags, trending_mix + 1))}

\* every triple of replies with a loaded provider, and every sample order and
\* trend bundle for the fallback templates
GenerateInputs ==
    {<<TRUE, <<Replies[i], Replies[j], Replies[k]>>, <<1, 2, 3>>, Bundle(default_hashtags)>> :
        i \in 1..Len(Replies), j \in 1..Len(Replies), k \in 1..Len(Replies)}
    \cup {<<c, <<NoReply, NoReply, NoReply>>, s, b>> :
            c \in BOOLEAN, s \in SampleOrders, b \in TrendBundles}

InitGenerate ==
    /\ Idle
    /\ call \in {[fn |-> "generate", client |-> a[1], responses |-> a[2], sample |-> a[3],
                  trend_data |-> a[4], rets |-> <<>>] : a \in GenerateInputs}

\* generate(trend_data, content_data)
CallGenerate ==
    /\ call.fn = "generate"
    /\ call.rets = <<>>
    /\ call' = [call EXCEPT !.rets =
                    <<generate(call.client, call.responses, call.sample, call.trend_data)>>]
    /\ UNCHANGED <<pc, env, results, fs>>

NextGenerate == CallGenerate

SpecGenerate == InitGenerate /\ [][NextGenerate]_vars

(***************************************************************************)
(* Properties of run_pipeline                                              *)
(***************************************************************************)

Started == pc \notin {"start", "raised", "idle"}

Returned == pc = "returned"

StagesArePrefix ==
    Started =>
        /\ Len(results.stages) <= Len(StageNames)
        /\ \A i \in 1..Len(results.stages) : results.stages[i].name = StageNames[i]

StagesOnlyAppended ==
    Started =>
        \/ results'.stages = results.stages
        \/ /\ Len(results'.stages) = Len(results.stages) + 1
           /\ SubSeq(results'.stages, 1, Len(results.stages)) = results.stages
           /\ results'.stages[Len(results'.stages)].name = StageNames[Len(results'.stages)]

\* C1: the stages recorded in results['stages'] are always the first ones of
\* input_preparation, trend_analysis, content_understanding,
\* content_generation, quality_control, finalization, in that order, and a
\* step of run_pipeline either leaves the recorded stages as they are or
\* appends the next one: none is recorded twice, skipped or re-entered.
StagesRecordedInOrder == []StagesArePrefix /\ [][StagesOnlyAppended]_vars

\* C1 witness: a run that recorded all six stages
AllStagesRecorded ==
    /\ Returned
    /\ Len(results.stages) = Len(StageNames)
    /\ results.stages[Len(StageNames)].name = "finalization"

\* C2: run_pipeline never raises to its caller, and a run that failed
\* returns status 'failed' with an 'error' string and the stages that
\* finished before the failure.
RunNeverRaises ==
    /\ pc # "raised"
    /\ Returned /\ results.status = "failed" =>
          /\ "error" \in DOMAIN results
          /\ \A i \in 1..Len(results.stages) : results.stages[i].name = StageNames[i]

\* C3: a run that returned is 'completed' with a finalization result of
\* status 'success' and non-null json_path and package_path, or it is
\* 'failed' with an error.
CompletedHasPackage ==
    Returned =>
        \/ /\ results.status = "completed"
           /\ StageOf(results, "finalization").status = "success"
           /\ results.final_outputs.json_path # None
           /\ results.final_outputs.package_path # None
        \/ /\ results.status = "failed"
           /\ "error" \in DOMAIN results

\* the failure the run injects into a stage itself, whatever the stages
\* before it handed over
StageFault(name) ==
    CASE name = "trend_analysis" -> env.trend_fault
      [] name = "content_understanding" -> env.understand_fault
      [] name = "content_generation" -> env.client /\ request_loop(env.responses, 1, <<>>)[2]
      [] name = "quality_control" ->
            \/ ~env.images_mkdir_ok
            \/ ~env.copy_ok
            \/ env.client /\ \E i \in 1..Len(env.responses) :
                                env.responses[i].parsed.title = None
      [] name = "finalization" -> ~env.json_write_ok \/ ~env.zip_write_ok
      [] OTHER -> FALSE

DegradingStages ==
    {"trend_analysis", "content_understanding", "content_generation", "quality_control"}

\* C4: when one of trend_analysis, content_understanding, content_generation
\* and quality_control returned its 'error' payload, every later stage that
\* does not fail by itself has status 'success'.
DownstreamSucceeds ==
    Started =>
        \A i \in 1..Len(results.stages) : \A j \in (i + 1)..Len(results.stages) :
            /\ results.stages[i].name \in DegradingStages
            /\ results.stages[i].result.status = "error"
            /\ ~StageFault(results.stages[j].name)
            => results.stages[j].result.status = "success"

\* C5: every run of run_pipeline eventually returns a result whose status is
\* 'completed' or 'failed'.  A run takes its steps in the order of the stages
\* and never goes back, so it returns eventually exactly if a run that has
\* not ended can take a step and a run that has ended has returned.
RunEventuallyReturns ==
    /\ pc \notin {"returned", "raised"} => ENABLED Next
    /\ pc \in {"returned", "raised"} =>
          Returned /\ results.status \in {"completed", "failed"}

ProvidersAbsent == ~env.pytrends /\ ~env.client /\ ~env.blip

NothingFails ==
    /\ env.mkdir_ok
    /\ prepare_inputs_error(env) = None
    /\ ~env.trend_fault
    /\ ~env.understand_fault
    /\ env.listdir_ok
    /\ env.images_mkdir_ok
    /\ env.copy_ok
    /\ env.json_write_ok
    /\ env.zip_write_ok

ArchivePath == PathJoin(output_base_of(env), "final_package.zip")

JsonPath == PathJoin(output_base_of(env), "final_post.json")

\* C6: with no provider loaded and no failing file-system call, a run that
\* has ended has returned 'completed' with finalization 'success', exactly 3
\* candidates, at least 5 hashtags in each of the 3 post options, and the
\* archive written, whatever the keyword file holds and whether or not it
\* can be read.
ProvidersAbsentCompletes ==
    pc \in {"returned", "raised"} /\ ProvidersAbsent /\ NothingFails =>
        /\ Returned
        /\ results.status = "completed"
        /\ StageOf(results, "finalization").status = "success"
        /\ Len(StageOf(results, "content_generation").candidates) = candidates_wanted
        /\ JsonPath \in DOMAIN fs
        /\ Len(fs[JsonPath].data.post_options) = candidates_wanted
        /\ \A i \in 1..candidates_wanted :
              Len(fs[JsonPath].data.post_options[i].hashtags) >= hashtag_min
        /\ ArchivePath \in DOMAIN fs
        /\ results.final_outputs.package_path = ArchivePath

\* C6 witness: such a run that could not read its keyword file
ProvidersAbsentUnreadable ==
    /\ Returned
    /\ ProvidersAbsent
    /\ NothingFails
    /\ ~env.readable
    /\ results.status = "completed"

(***************************************************************************)
(* Properties of ContentGenerationAgent.generate                           *)
(***************************************************************************)

GenerateReturned == call.fn = "generate" /\ Len(call.rets) = 1

\* the handling of the replies hits an unexpected error
GenerateFails == call.client /\ request_loop(call.responses, 1, <<>>)[2]

\* C7: generate returns exactly 3 candidates for every provider presence and
\* every outcome of the three requests; when the handling of a reply raises
\* it returns status 'error' with the fallback templates, and otherwise
\* status 'success'.
GenerateThreeCandidates ==
    GenerateReturned =>
        /\ Len(call.rets[1].candidates) = candidates_wanted
        /\ call.rets[1].status = (IF GenerateFails THEN "error" ELSE "success")
        /\ GenerateFails =>
              /\ call.rets[1].generation_method = "fallback"
              /\ call.rets[1].candidates =
                    Take(fallback_generation(call.trend_data, call.sample), candidates_wanted)

\* C7 witness: a good reply was turned into a candidate before the next
\* reply, JSON that is not an object, made the call fall back
GenerateRecovered ==
    /\ GenerateReturned
    /\ call.client
    /\ call.responses[1] = GoodReply
    /\ call.responses[2] = ScalarReply
    /\ call.rets[1].status = "error"

\* C8: every candidate generate returns has a title of at most 60 characters
\* and at most 12 hashtags.
CandidatesWithinLimits ==
    GenerateReturned =>
        \A i \in 1..Len(call.rets[1].candidates) :
            /\ call.rets[1].candidates[i].title # None =>
                  Len(call.rets[1].candidates[i].title) <= title_max
            /\ Len(call.rets[1].candidates[i].hashtags) <= hashtag_max

(***************************************************************************)
(* Properties of QualityControlAgent.validate_text                         *)
(***************************************************************************)

ValidateReturned == call.fn = "validate_text" /\ Len(call.rets) >= 1

\* C9: the hashtags validate_text returns number between 5 and 12 and no two
\* of them are equal ignoring case.
HashtagsBounded ==
    ValidateReturned =>
        LET tags == call.rets[1].hashtags
        IN  /\ Len(tags) >= hashtag_min
            /\ Len(tags) <= hashtag_max
            /\ \A i \in 1..Len(tags) : \A j \in 1..Len(tags) :
                  i # j => Lower(tags[i]) # Lower(tags[j])

\* C9 witness: a call returned whose list had more than 12 entries, the
\* first two of them equal ignoring case
LongDuplicatedListValidated ==
    /\ ValidateReturned
    /\ call.hashtags = <<"#rpg", "#RPG">> \o Take(LongTags, MaxLongTags)
    /\ Len(call.hashtags) > hashtag_max
    /\ Len(call.rets[1].hashtags) = hashtag_max

\* C10: validate_text applied to the title, caption and hashtags it returned
\* returns the same title, caption and hashtags.
ValidateTextFixedPoint ==
    call.fn = "validate_text" /\ Len(call.rets) = 2 =>
        /\ call.rets[2].title = call.rets[1].title
        /\ call.rets[2].caption = call.rets[1].caption
        /\ call.rets[2].hashtags = call.rets[1].hashtags

\* C11: validate_text applied to the title, caption and hashtags it returned
\* reports no issue: the second result has an empty issues list and is_valid
\* true.
SecondCallReportsNoIssues ==
    call.fn = "validate_text" /\ Len(call.rets) = 2 =>
        /\ call.rets[2].issues = <<>>
        /\ call.rets[2].is_valid

\* C11 as amended: validate_text applied to the title, caption and hashtags
\* it returned reports no truncation and no hashtag issue; it reports the
\* banned-content issue exactly when the first call did, any other issue it
\* reports is the emoji density of the returned caption, and is_valid tells
\* whether it reported none.
SecondCallIssuesDescribeCaption ==
    call.fn = "validate_text" /\ Len(call.rets) = 2 =>
        LET first == call.rets[1]
            second == call.rets[2]
        IN  /\ Range(second.issues) \subseteq
                  {Inappropriate, HighEmojiDensity(second.metrics.emoji_count)}
            /\ (Inappropriate \in Range(second.issues)) <=> (Inappropriate \in Range(first.issues))
            /\ second.is_valid <=> (second.issues = <<>>)

\* C11 witness: the first call cut the title and filled up the hashtags, and
\* the second call on its output reported nothing
SecondCallClean ==
    /\ call.fn = "validate_text"
    /\ Len(call.rets) = 2
    /\ {TitleTruncated, AddedGeneric} \subseteq Range(call.rets[1].issues)
    /\ call.rets[2].issues = <<>>
    /\ call.rets[2].is_valid

\* position i of s holds no white space
Kept(s, i) == Char(s, i) \notin WhiteSpace

\* s from its first to its last character that is no white space
Stripped(s) ==
    IF \A i \in 1..Len(s) : ~Kept(s, i) THEN ""
    ELSE SubSeq(s, CHOOSE i \in 1..Len(s) : Kept(s, i) /\ \A j \in 1..(i - 1) : ~Kept(s, j),
                   CHOOSE i \in 1..Len(s) : Kept(s, i) /\ \A j \in (i + 1)..Len(s) : ~Kept(s, j))

\* text is the first limit characters of the stripped input, and message is
\* among the issues exactly when the stripped input was longer than limit
TruncatedTo(input, text, limit, message, issues) ==
    LET whole == Stripped(input)
    IN  /\ Len(text) <= limit
        /\ Len(text) = (IF Len(whole) > limit THEN limit ELSE Len(whole))
        /\ text = SubSeq(whole, 1, Len(text))
        /\ (message \in Range(issues)) <=> (Len(whole) > limit)

\* C12: validate_text returns a title of at most 60 and a caption of at most
\* 2200 characters, each the prefix of the stripped input, and reports the
\* truncation of each exactly when the stripped input was longer than the
\* limit; a caption of 2300 letters a comes back 2200 long with the issue.
TextTruncatedToLimits ==
    ValidateReturned =>
        /\ TruncatedTo(call.title, call.rets[1].title, title_max,
                       TitleTruncated, call.rets[1].issues)
        /\ TruncatedTo(call.caption, call.rets[1].caption, caption_max,
                       CaptionTruncated, call.rets[1].issues)
        /\ call.caption = RepStr("a", 2300) =>
              /\ Len(call.rets[1].caption) = 2200
              /\ CaptionTruncated \in Range(call.rets[1].issues)

\* C12 witness: the caption of 2300 letters was validated and cut
LongCaptionValidated ==
    /\ ValidateReturned
    /\ call.caption = RepStr("a", 2300)
    /\ Len(call.rets[1].caption) = caption_max
    /\ CaptionTruncated \in Range(call.rets[1].issues)

(***************************************************************************)
(* Calls of FinalizationAgent.rank_hashtags on bounded inputs, on the      *)
(* list as given and on the list validate_text makes of it                 *)
(***************************************************************************)

\* how many freely chosen hashtags make up an input list
MaxRankTags == 3

\* trend, niche, brand and general tags, with variants in another case
RankUniverse ==
    {"#rpgmania", "#RPGMania", "#hacktool", "#casualgame", "#fps", "#fun", "#t01", "#T02"}

ScenarioTags == <<"#rpgmania", "#hacktool", "#RPGMania", "#casualgame">>

RankLists ==
    ListsUpTo(RankUniverse, MaxRankTags)
    \cup {short \o Take(LongTags, n) : short \in ListsUpTo({"#fun", "#fps"}, 1), n \in 0..MaxLongTags}
    \cup {ScenarioTags}

\* rank_hashtags called with no trend data (None or {})
MissingBundle == [missing |-> TRUE]

RankBundles ==
    {MissingBundle, Bundle(<<>>), Bundle(<<"#mobilegame", "#rpgmania", "#fun">>),
     Bundle(Take(LongTags, trend_window + 1))}

InitRank ==
    /\ Idle
    /\ call \in {[fn |-> "rank_hashtags", hashtags |-> h, trend_data |-> b,
                  ranked |-> <<>>, validated |-> <<>>, piped |-> <<>>] :
                    h \in RankLists, b \in RankBundles}

\* rank_hashtags(hashtags, trend_data) on the list as given
CallRankHashtags ==
    /\ call.fn = "rank_hashtags"
    /\ call.ranked = <<>>
    /\ call' = [call EXCEPT !.ranked = <<rank_hashtags(call.hashtags, call.trend_data)>>]
    /\ UNCHANGED <<pc, env, results, fs>>

\* check_quality's validate_text on a candidate with these hashtags
CallValidateBeforeRank ==
    /\ call.fn = "rank_hashtags"
    /\ call.ranked # <<>>
    /\ call.validated = <<>>
    /\ call' = [call EXCEPT !.validated = <<validate_text("title", "ok", call.hashtags)>>]
    /\ UNCHANGED <<pc, env, results, fs>>

\* create_final_json's rank_hashtags on the validated hashtags
CallRankValidated ==
    /\ call.fn = "rank_hashtags"
    /\ call.validated # <<>>
    /\ call.piped = <<>>
    /\ call' = [call EXCEPT !.piped =
                    <<rank_hashtags(call.validated[1].hashtags, call.trend_data)>>]
    /\ UNCHANGED <<pc, env, results, fs>>

NextRank == CallRankHashtags \/ CallValidateBeforeRank \/ CallRankValidated

SpecRank == InitRank /\ [][NextRank]_vars

(***************************************************************************)
(* Properties of FinalizationAgent.rank_hashtags                           *)
(***************************************************************************)

RankReturned == call.fn = "rank_hashtags" /\ call.ranked # <<>>

\* C13: rank_hashtags returns at most 12 hashtags, each of them an element
\* of the list it was given, whatever the trend bundle (missing or empty
\* included); so it does on the list validate_text returned.
RankedFromInput ==
    /\ RankReturned =>
          /\ Len(call.ranked[1]) <= 12
          /\ Range(call.ranked[1]) \subseteq Range(call.hashtags)
    /\ call.fn = "rank_hashtags" /\ call.piped # <<>> =>
          /\ Len(call.piped[1]) <= 12
          /\ Range(call.piped[1]) \subseteq Range(call.validated[1].hashtags)

\* C13 witness: a list of more than 12 hashtags was ranked against a bundle
\* holding hashtags of its own, and 12 came back
LongListRanked ==
    /\ RankReturned
    /\ Len(call.hashtags) > ranked_max
    /\ call.trend_data = Bundle(<<"#mobilegame", "#rpgmania", "#fun">>)
    /\ Len(call.ranked[1]) = ranked_max

\* tag equals, ignoring case, one of the first 10 hashtags of the bundle
TrendMatch(tag, trend_data) ==
    /\ "hashtags" \in DOMAIN trend_data
    /\ \E k \in 1..Len(trend_data.hashtags) :
          k <= 10 /\ Lower(trend_data.hashtags[k]) = Lower(tag)

ScenarioRanked ==
    /\ call.fn = "rank_hashtags"
    /\ call.piped # <<>>
    /\ call.hashtags = ScenarioTags
    /\ TrendMatch("#rpgmania", call.trend_data)
    /\ "#rpgmania" \in Range(Take(call.trend_data.hashtags, 10))

\* C15: validate_text followed by rank_hashtags turns the scenario's hashtags
\* into a list that starts with "#rpgmania", does not hold "#RPGMania", still
\* holds "#hacktool" and has at most 4 elements.
ScenarioAtMostFour ==
    ScenarioRanked =>
        /\ call.piped[1][1] = "#rpgmania"
        /\ "#RPGMania" \notin Range(call.piped[1])
        /\ "#hacktool" \in Range(call.piped[1])
        /\ Len(call.piped[1]) <= 4

\* C15 as amended: the list starts with "#rpgmania", does not hold
\* "#RPGMania", still holds "#hacktool" and has 5 elements: the three
\* hashtags left and the first two generic hashtags, which validate_text
\* adds to reach its minimum of 5.
ScenarioPaddedToFive ==
    ScenarioRanked =>
        /\ call.piped[1][1] = "#rpgmania"
        /\ "#RPGMania" \notin Range(call.piped[1])
        /\ "#hacktool" \in Range(call.piped[1])
        /\ Len(call.piped[1]) = 5
        /\ Range(call.piped[1]) =
              {"#rpgmania", "#hacktool", "#casualgame", generic_tags[1], generic_tags[2]}

\* C15 witness: the scenario ran through validate_text and rank_hashtags
ScenarioRan ==
    /\ ScenarioRanked
    /\ call.validated[1].hashtags =
          <<"#rpgmania", "#hacktool", "#casualgame", "#gaming", "#mobilegame">>
    /\ AddedGeneric \in Range(call.validated[1].issues)

(***************************************************************************)
(* Calls of TrendAnalysisAgent.analyze and _fallback_score on bounded      *)
(* inputs                                                                  *)
(***************************************************************************)

\* the batches of the longest keyword file
TrendBatches == MaxBatches + 2

TwoDigits(i) == IF i < 10 THEN "0" \o ToString(i) ELSE ToString(i)

\* more keywords than top_keywords keeps, all of one fallback score
LongKeywordFile == Join([i \in 1..(top_cut + 2) |-> "key" \o TwoDigits(i)], "\n")

TrendFiles ==
    KeywordFiles
    \cup {"war,rpg,axe", "zed, Mobile  Game ,ab,x!,Casual Puzzle Saga,online,war,zed", LongKeywordFile}

\* the provider raises before any score of the batch is in
FailedAnswer == [SteadyAnswer EXCEPT !.raised = TRUE]

\* the provider raises after two scores are in, the second of them 81.0
TiedAnswer ==
    [raised |-> TRUE, scored |-> 2,
     recent |-> <<80, 90, 40, 20, 0>>, monthly |-> <<50, 60, 50, 50, 50>>]

\* every keyword of the batch has the same score
FlatAnswer ==
    [raised |-> FALSE, scored |-> 0,
     recent |-> <<50, 50, 50, 50, 50>>, monthly |-> <<50, 50, 50, 50, 50>>]

TrendAnswers == {SteadyAnswer, BrokenAnswer, FailedAnswer, TiedAnswer, FlatAnswer}

\* one kind of answer for every batch but one
TrendAnswerLists ==
    {[n \in 1..TrendBatches |-> IF n = k THEN a ELSE b] :
        k \in 1..TrendBatches, a \in TrendAnswers, b \in TrendAnswers}

\* a keyword file, readable or not, scored without the provider or with it
TrendWorlds ==
    {[Calm EXCEPT !.readable = rd, !.content = c, !.order = o, !.trend_fault = tf] :
        rd \in BOOLEAN, c \in TrendFiles, o \in SetOrders, tf \in BOOLEAN}
    \cup {[Calm EXCEPT !.readable = rd, !.content = c, !.pytrends = TRUE, !.answers = a] :
            rd \in BOOLEAN, c \in TrendFiles, a \in TrendAnswerLists}

\* normalized keywords of every length class, with and without a gaming
\* term, starting with letters, digits, '_', '-', a blank and other letters
ScoredKeywords ==
    {"abc", "zz top", "zzzzz", "rpg", "game1", "0ad", "9 lives", "_id", "-x-", " xy",
     "action", "adventur", "adventure", "mobile game", "zombie run online",
     "Qyle", "Xlke", "Jans oyunu", "Jans oyunu online", "multiplayer"}

InitTrend ==
    /\ Idle
    /\ call \in {[fn |-> "analyze", path |-> p, world |-> w, keyword |-> "", rets |-> <<>>] :
                    p \in {"./asokeywords.txt", None}, w \in TrendWorlds}
            \cup {[fn |-> "_fallback_score", path |-> None, world |-> Calm, keyword |-> k,
                   rets |-> <<>>] : k \in ScoredKeywords}

\* analyze(aso_keywords_path)
CallAnalyze ==
    /\ call.fn = "analyze"
    /\ call.rets = <<>>
    /\ call' = [call EXCEPT !.rets = <<analyze(call.path, call.world)>>]
    /\ UNCHANGED <<pc, env, results, fs>>

\* _fallback_score(keyword), called up to twice
CallFallbackScore ==
    /\ call.fn = "_fallback_score"
    /\ Len(call.rets) < 2
    /\ call' = [call EXCEPT !.rets = Append(@, _fallback_score(call.keyword))]
    /\ UNCHANGED <<pc, env, results, fs>>

NextTrend == CallAnalyze \/ CallFallbackScore

SpecTrend == InitTrend /\ [][NextTrend]_vars

(***************************************************************************)
(* Properties of TrendAnalysisAgent                                        *)
(***************************************************************************)

AnalyzeReturned == call.fn = "analyze" /\ Len(call.rets) = 1

\* the normalized keywords the call scored, in input order
AnalyzedKeywords ==
    normalize_keywords(IF call.path # None /\ call.world.readable
                       THEN read_keywords(call.world.content) ELSE sample_keywords)

\* C16: analyze returns at most 15 top_keywords, sorted by non-increasing
\* score with keywords of equal score in the order of the input, and at most
\* 20 hashtags, with and without the provider and whichever batches fail.
TopKeywordsSortedStable ==
    AnalyzeReturned =>
        LET top == call.rets[1].top_keywords
            input == AnalyzedKeywords
        IN  /\ Len(top) <= 15
            /\ Len(call.rets[1].hashtags) <= 20
            /\ \A i \in 1..Len(top) : \A j \in (i + 1)..Len(top) :
                  /\ top[i].score >= top[j].score
                  /\ top[i].score = top[j].score /\ top[i].keyword # top[j].keyword =>
                        \E p \in 1..Len(input) : \E q \in (p + 1)..Len(input) :
                            /\ input[p] = top[i].keyword
                            /\ input[q] = top[j].keyword

\* the code point of the first characters of ScoredKeywords
CodePoint ==
    [c \in {"a", "g", "m", "r", "z", "0", "9", "_", "-", " ", "Q", "X", "J"} |->
        CASE c = "a" -> 97 [] c = "g" -> 103 [] c = "m" -> 109 [] c = "r" -> 114
          [] c = "z" -> 122 [] c = "0" -> 48 [] c = "9" -> 57 [] c = "_" -> 95
          [] c = "-" -> 45 [] c = " " -> 32 [] c = "Q" -> 246 [] c = "X" -> 252
          [] c = "J" -> 351]

\* ten times min(100, max(0, 50 + length bonus + term bonus + 0.5 * (ord - ord('a'))))
ExpectedScore(keyword) ==
    LET length_part == IF Len(keyword) <= 5 THEN 200 ELSE IF Len(keyword) <= 8 THEN 100 ELSE 0
        term_part ==
            IF \E term \in {"game", "play", "mobile", "online", "rpg", "fps", "mmo", "pvp"} :
                  \E i \in 1..Len(keyword) :
                      i + Len(term) - 1 <= Len(keyword) /\ SubSeq(keyword, i, i + Len(term) - 1) = term
            THEN 150 ELSE 0
        sum == 500 + length_part + term_part + 5 * (CodePoint[SubSeq(keyword, 1, 1)] - 97)
    IN  IF sum > 1000 THEN 1000 ELSE IF sum < 0 THEN 0 ELSE sum

\* C17: for every normalized keyword, whatever its first character,
\* _fallback_score returns min(100, max(0, 50 + (20 if length <= 5 else 10 if
\* length <= 8 else 0) + (15 if it holds a gaming term) + 0.5 * (ord(first
\* character) - ord('a')))), and a second call returns the same.
FallbackScoreFormula ==
    call.fn = "_fallback_score" =>
        /\ \A r \in 1..Len(call.rets) : call.rets[r] = ExpectedScore(call.keyword)
        /\ Len(call.rets) < 2 => ENABLED CallFallbackScore

\* C17 witness: a keyword starting with a letter beyond ASCII was scored
\* twice, and the score was cut at 100
NonAsciiKeywordScored ==
    /\ call.fn = "_fallback_score"
    /\ call.keyword = "Jans oyunu online"
    /\ call.rets = <<score_max, score_max>>

\* what analyze returned tells the error from the unreadable keyword file
AnalyzeResultFits ==
    AnalyzeReturned =>
        LET ret == call.rets[1]
        IN  /\ call.world.trend_fault =>
                  /\ ret.status = "error"
                  /\ ret.keywords_analyzed = 0
                  /\ ret.top_keywords = <<>>
                  /\ ret.hashtags = <<"#mobilegame", "#gaming", "#game", "#play", "#fun">>
            /\ ~call.world.trend_fault => ret.status = "success"
            /\ ~call.world.trend_fault /\ (call.path = None \/ ~call.world.readable) =>
                  /\ ret.keywords_analyzed = 10
                  /\ {ret.top_keywords[i].keyword : i \in 1..Len(ret.top_keywords)}
                        = Range(sample_keywords)

\* a step of a call of analyze is its return
AnalyzeStepReturns ==
    call.fn = "analyze" /\ call.rets = <<>> => Len(call'.rets) = 1

\* C18: analyze never raises; an error past the reading of the keyword file
\* gives status 'error', keywords_analyzed 0, no top_keywords and the five
\* default hashtags, and a keyword file that cannot be read alone gives
\* status 'success' with the 10 sample keywords scored.
AnalyzeNeverRaises == []AnalyzeResultFits /\ [][AnalyzeStepReturns]_vars

\* C18 witness: the keyword file could not be read and the sample keywords
\* were scored
UnreadableFileScored ==
    /\ AnalyzeReturned
    /\ call.path # None
    /\ ~call.world.readable
    /\ ~call.world.trend_fault
    /\ call.rets[1].status = "success"
    /\ call.rets[1].keywords_analyzed = Len(sample_keywords)

(***************************************************************************)
(* Properties of FinalizationAgent.create_final_json                       *)
(***************************************************************************)

\* final_post.json was written
JsonWritten == Returned /\ JsonPath \in DOMAIN fs

\* C19: the document create_final_json writes holds exactly one post option
\* per validated candidate, in candidate order: option i (counted from 1)
\* has option_number i, the validated title and caption of candidate i, the
\* hashtags rank_hashtags gives for its validated hashtags and the trend
\* results, and its validation issues as quality_notes.
OnePostOptionPerCandidate ==
    JsonWritten =>
        LET post_options == fs[JsonPath].data.post_options
            validated_candidates == StageOf(results, "quality_control").validated_candidates
            trend_results == StageOf(results, "trend_analysis")
        IN  /\ Len(post_options) = Len(validated_candidates)
            /\ \A i \in 1..Len(post_options) :
                  /\ post_options[i].option_number = i
                  /\ post_options[i].title = validated_candidates[i].validated.title
                  /\ post_options[i].caption = validated_candidates[i].validated.caption
                  /\ post_options[i].hashtags
                        = rank_hashtags(validated_candidates[i].validated.hashtags, trend_results)
                  /\ post_options[i].quality_notes = validated_candidates[i].validation_issues

\* C19 witness: three post options were written, one of them with quality
\* notes and one with hashtags in another order than the validated ones
ThreeOptionsWritten ==
    /\ JsonWritten
    /\ Len(fs[JsonPath].data.post_options) = 3
    /\ \E i \in 1..3 : fs[JsonPath].data.post_options[i].quality_notes # <<>>
    /\ \E i \in 1..3 :
          fs[JsonPath].data.post_options[i].hashtags
              # StageOf(results, "quality_control").validated_candidates[i].validated.hashtags

(***************************************************************************)
(* Calls of QualityControlAgent.check_quality on bounded lists of image    *)
(* paths                                                                   *)
(***************************************************************************)

\* the longest list of image paths drawn freely
MaxImagePaths == 3

\* the screenshots there are
ImageFiles == <<SmallShot, ExactShot, BitmapShot, BrokenShot>>

\* a path for each of them and one that names no file
ImagePaths ==
    {"./screenshots/" \o ImageFiles[i].name : i \in 1..Len(ImageFiles)}
    \cup {"./screenshots/gone.jpg"}

\* every short list, and lists longer than check_quality handles
ImagePathLists ==
    ListsUpTo(ImagePaths, MaxImagePaths)
    \cup {[i \in 1..(image_cap + 1) |-> p] : p \in ImagePaths}
    \cup {[i \in 1..(image_cap + 2) |->
              IF i = image_cap THEN p ELSE "./screenshots/" \o SmallShot.name] : p \in ImagePaths}

ImageWorlds ==
    {[Calm EXCEPT !.files = ImageFiles, !.copy_ok = c, !.images_mkdir_ok = d] :
        c \in BOOLEAN, d \in BOOLEAN}

InitImages ==
    /\ Idle
    /\ call \in {[fn |-> "check_quality", image_paths |-> l, world |-> w, rets |-> <<>>] :
                    l \in ImagePathLists, w \in ImageWorlds}

\* check_quality([], image_paths, output_base, utils_media)
CallCheckQuality ==
    /\ call.fn = "check_quality"
    /\ call.rets = <<>>
    /\ call' = [call EXCEPT !.rets = <<check_quality(<<>>, call.image_paths,
                                                       output_base_of(call.world), call.world)>>]
    /\ UNCHANGED <<pc, env, results, fs>>

NextImages == CallCheckQuality

SpecImages == InitImages /\ [][NextImages]_vars

(***************************************************************************)
(* Properties of the image processing of check_quality                     *)
(***************************************************************************)

ImagesReturned == call.fn = "check_quality" /\ Len(call.rets) = 1

\* C20: when the images directory can be made, check_quality handles the
\* first 10 paths and returns one processed path for each of them, in input
\* order, the normalized or copied file or the image itself, whichever
\* image is missing, unreadable or cannot be copied.
OneProcessedPathPerImage ==
    ImagesReturned /\ call.world.images_mkdir_ok =>
        LET handled == Take(call.image_paths, image_cap)
            ret == call.rets[1]
            paths == ret.processed_images.paths
            images_dir == PathJoin(output_base_of(call.world), "images")
        IN  /\ ret.status = "success"
            /\ Len(paths) = Len(handled)
            /\ \A i \in 1..Len(paths) :
                  paths[i] \in {PathJoin(images_dir, "processed_" \o Basename(handled[i])),
                                handled[i]}

(***************************************************************************)
(* Calls of process_images on one image of every shape, and again on the   *)
(* image it wrote                                                          *)
(***************************************************************************)

\* widths and heights around the target's, and far from them
ImageSides == {1, 2, 3, 540, 675, 800, 1079, 1080, 1081, 1349, 1350, 1351, 1920, 4000}

InitResize ==
    /\ Idle
    /\ call \in {[fn |-> "process_images", width |-> w, height |-> h, sizes |-> <<>>] :
                    w \in ImageSides, h \in ImageSides}

\* the image of the next call: the source, then what the call before wrote
ImageOfCall ==
    IF call.sizes = <<>>
    THEN [name |-> "shot.jpg", readable |-> TRUE, width |-> call.width, height |-> call.height]
    ELSE [name |-> "processed_shot.jpg", readable |-> TRUE,
          width |-> call.sizes[1][1], height |-> call.sizes[1][2]]

\* process_images([image_path], output_dir, utils_media), up to twice
CallProcessImages ==
    /\ call.fn = "process_images"
    /\ Len(call.sizes) < 2
    /\ LET done == process_images(<<"./screenshots/" \o ImageOfCall.name>>,
                                  "./outputs/images" \o ToString(Len(call.sizes) + 1),
                                  [Calm EXCEPT !.files = <<ImageOfCall>>])
       IN  /\ Cardinality(done.written) = 1
           /\ call' = [call EXCEPT !.sizes = Append(@, (CHOOSE w \in done.written : TRUE).size)]
    /\ UNCHANGED <<pc, env, results, fs>>

NextResize == CallProcessImages

SpecResize == InitResize /\ [][NextResize]_vars

(***************************************************************************)
(* Properties of the image normalization                                   *)
(***************************************************************************)

\* C21: the image process_images writes for a source image of any width and
\* height is 1080 wide and 1350 high, and the image written for that image
\* in turn has the same size.
ProcessedSizeExact ==
    call.fn = "process_images" =>
        /\ Len(call.sizes) >= 1 => call.sizes[1] = <<1080, 1350>>
        /\ Len(call.sizes) = 2 => call.sizes[2] = call.sizes[1]

\* C22: a run that returned 'completed' and wrote final_post.json wrote
\* exactly 3 post options into it.
CompletedHasThreeOptions ==
    Returned /\ results.status = "completed" /\ JsonPath \in DOMAIN fs =>
        Len(fs[JsonPath].data.post_options) = 3

\* what the claim gives the keyword at place p of the input: the fallback
\* score if its batch of 5 failed, else 0.7 * recent + 0.3 * monthly
ClaimedScore(input, answers, p) ==
    LET answer == answers[(p - 1) \div 5 + 1]
        place == ((p - 1) % 5) + 1
    IN  IF answer.raised THEN _fallback_score(input[p])
        ELSE 7 * answer.recent[place] + 3 * answer.monthly[place]

\* C23: with the provider present, top_keywords holds min(15,
\* keywords_analyzed) entries, a keyword no more often than the normalized
\* input holds it, each with the weighted score of its batch or, if its
\* batch failed at any point, its fallback score.
OneScorePerKeyword ==
    AnalyzeReturned /\ call.world.pytrends /\ call.rets[1].status = "success" =>
        LET input == AnalyzedKeywords
            top == call.rets[1].top_keywords
        IN  /\ call.rets[1].keywords_analyzed = Len(input)
            /\ Len(top) = (IF Len(input) < 15 THEN Len(input) ELSE 15)
            /\ \A k \in Range(input) :
                  Cardinality({i \in 1..Len(top) : top[i].keyword = k})
                      <= Cardinality({p \in 1..Len(input) : input[p] = k})
            /\ \A i \in 1..Len(top) : \E p \in 1..Len(input) :
                  /\ input[p] = top[i].keyword
                  /\ top[i].score = ClaimedScore(input, call.world.answers, p)

(***************************************************************************)
(* Properties of the candidates of ContentGenerationAgent                  *)
(***************************************************************************)

\* reply i and every reply before it gave a candidate, so candidate i of the
\* result is the one built from reply i
CandidateFromReply(i) ==
    /\ GenerateReturned
    /\ call.client
    /\ call.rets[1].status = "success"
    /\ \A j \in 1..i : has_text(call.responses[j]) /\ candidate_of(call.responses[j]) # <<>>

\* C24: the candidate built from a reply that is not JSON has the reply's
\* first line cut to 60 characters as title, all lines after the first,
\* joined and cut to 2200 characters, as caption, and the fixed 12 hashtags.
HeuristicSplitsFirstLine ==
    \A i \in 1..3 :
        CandidateFromReply(i) /\ call.responses[i].parsed.kind = "invalid" =>
            LET lines == SplitOn(strip_fence(call.responses[i].text), "\n")
                candidate == call.rets[1].candidates[i]
            IN  /\ candidate.title = Prefix(lines[1], 60)
                /\ candidate.caption = Prefix(Join(Tail(lines), "\n"), 2200)
                /\ candidate.hashtags = fixed_hashtags
                /\ Len(candidate.hashtags) = 12

\* C25: each candidate of fallback_generation has up to 5 hashtags of the
\* trend bundle followed by hashtags of its template, 12 in all.
FallbackMixesTwelve ==
    GenerateReturned /\ ~call.client /\ "hashtags" \in DOMAIN call.trend_data =>
        \A i \in 1..Len(call.rets[1].candidates) :
            LET tags == call.rets[1].candidates[i].hashtags
                trending == Take(call.trend_data.hashtags, 5)
                own == templates[call.sample[i]].hashtags
            IN  /\ Len(tags) >= Len(trending)
                /\ SubSeq(tags, 1, Len(trending)) = trending
                /\ SubSeq(tags, Len(trending) + 1, Len(tags)) = Take(own, Len(tags) - Len(trending))
                /\ Len(tags) = 12

\* the first matching of: trend match, brand word, niche word, none
ClaimedBucket(tag, trend_data) ==
    IF TrendMatch(tag, trend_data) THEN "trend"
    ELSE IF \E word \in {"game", "oyun", "mobile", "mobil"} : Contains(Lower(tag), word)
    THEN "brand"
    ELSE IF \E word \in {"rpg", "mmo", "pvp", "fps", "strategy"} : Contains(Lower(tag), word)
    THEN "niche"
    ELSE "general"

\* the n smallest elements of a set of places
FirstOf(S, n) == {i \in S : Cardinality({j \in S : j < i}) < n}

RECURSIVE AtPlaces(_, _)
\* the entries of q at the places of S, in the order of the places
AtPlaces(q, S) ==
    IF S = {} THEN <<>>
    ELSE LET m == CHOOSE x \in S : \A y \in S : x <= y
         IN  <<q[m]>> \o AtPlaces(q, S \ {m})

\* the ranking the claim describes, place by place
ClaimedRanking(hashtags, trend_data) ==
    LET PlacesOf(b, taken) ==
            {i \in 1..Len(hashtags) :
                /\ ClaimedBucket(hashtags[i], trend_data) = b
                /\ \A j \in taken : hashtags[j] # hashtags[i]}
        trend == FirstOf(PlacesOf("trend", {}), 3)
        niche == FirstOf(PlacesOf("niche", trend), 2)
        brand == FirstOf(PlacesOf("brand", trend \cup niche), 2)
        general == PlacesOf("general", trend \cup niche \cup brand)
        included == trend \cup niche \cup brand \cup general
        rest == {i \in 1..Len(hashtags) :
                    /\ \A j \in included : hashtags[j] # hashtags[i]
                    /\ \A j \in 1..(i - 1) : hashtags[j] # hashtags[i]}
    IN  Take(AtPlaces(hashtags, trend) \o AtPlaces(hashtags, niche)
             \o AtPlaces(hashtags, brand) \o AtPlaces(hashtags, general)
             \o AtPlaces(hashtags, rest), 12)

\* C26: rank_hashtags puts each tag into the first matching bucket of trend,
\* brand, niche, general and returns the first 3 trend tags, the first 2
\* niche tags not yet included, the first 2 brand tags not yet included,
\* the general tags, and then every tag not yet included, all in input
\* order, cut to 12.
RankedAsDescribed ==
    /\ RankReturned => call.ranked[1] = ClaimedRanking(call.hashtags, call.trend_data)
    /\ call.fn = "rank_hashtags" /\ call.piped # <<>> =>
          call.piped[1] = ClaimedRanking(call.validated[1].hashtags, call.trend_data)

\* C26 witness: a general, a brand and a niche tag came back in the order
\* niche, brand, general
EveryBucketRanked ==
    /\ RankReturned
    /\ call.hashtags = <<"#fun", "#casualgame", "#fps">>
    /\ call.trend_data = Bundle(<<>>)
    /\ call.ranked[1] = <<"#fps", "#casualgame", "#fun">>

\* no two entries of q are the same
DuplicateFree(q) == \A i \in 1..Len(q) : \A j \in 1..Len(q) : i # j => q[i] # q[j]

\* out holds the entries of q, each once
PermutationOf(out, q) ==
    /\ Len(out) = Len(q)
    /\ Range(out) = Range(q)
    /\ DuplicateFree(out)

\* C27: rank_hashtags returns a permutation of a list of at most 12
\* hashtags without duplicates, whatever the trend bundle, and so the ranked
\* list made of the hashtags validate_text returned still has 5 to 12
\* entries.
RankedIsPermutation ==
    /\ RankReturned /\ DuplicateFree(call.hashtags) /\ Len(call.hashtags) <= 12 =>
          PermutationOf(call.ranked[1], call.hashtags)
    /\ call.fn = "rank_hashtags" /\ call.piped # <<>> =>
          /\ PermutationOf(call.piped[1], call.validated[1].hashtags)
          /\ Len(call.piped[1]) >= 5
          /\ Len(call.piped[1]) <= 12

\* C27 witness: 12 validated hashtags, four of them trend hashtags, came
\* back in another order
TwelveReordered ==
    /\ call.fn = "rank_hashtags"
    /\ call.piped # <<>>
    /\ Len(call.piped[1]) = 12
    /\ call.piped[1] # call.validated[1].hashtags
    /\ Len(SelectSeq(call.validated[1].hashtags, LAMBDA h : TrendMatch(h, call.trend_data))) > 3

\* captions one or more of the banned patterns match, and captions none does
FlaggedCaptions ==
    {"free hack now", "HACK!", "see www.x.io", "hi @" \o RepStr("u", 15),
     "free hack now www.x.io", "spam scam http"}

UnflaggedCaptions == {"", "ok", " ok ", "Hackers", "hi @" \o RepStr("u", 14)}

\* how often the issue of the banned-content screen is among the issues
InappropriateCount(issues) ==
    Cardinality({i \in 1..Len(issues) : issues[i] = "Potentially inappropriate content detected"})

\* C28: the banned-content screen of validate_text adds its issue once
\* whatever the number of patterns that match, only for a caption that
\* matches (never for a title or a hashtag), and the title, the caption and
\* the hashtags come back as they do without a match.
BannedScreenOnlyFlags ==
    ValidateReturned =>
        LET ret == call.rets[1]
        IN  /\ InappropriateCount(ret.issues) <= 1
            /\ call.caption \in FlaggedCaptions => InappropriateCount(ret.issues) = 1
            /\ call.caption \in UnflaggedCaptions => InappropriateCount(ret.issues) = 0
            /\ Len(Stripped(call.caption)) <= 2200 => ret.caption = Stripped(call.caption)
            /\ Len(Stripped(call.title)) <= 60 => ret.title = Stripped(call.title)
            /\ Range(call.hashtags) \cap {"#hack", "#spam"} \subseteq Range(ret.hashtags)

\* C28 witness: a caption two patterns match came back unchanged with one
\* issue, next to a title and hashtags that hold banned tokens too
BannedCaptionFlaggedOnce ==
    /\ ValidateReturned
    /\ call.title = "free hack www.x.io"
    /\ call.caption = "free hack now www.x.io"
    /\ call.hashtags = <<"#rpg", "#hack", "#spam">>
    /\ call.rets[1].title = call.title
    /\ call.rets[1].caption = call.caption
    /\ InappropriateCount(call.rets[1].issues) = 1

\* the trend_analysis stage is recorded
TrendRecorded ==
    /\ Started
    /\ \E i \in 1..Len(results.stages) : results.stages[i].name = "trend_analysis"

RunTimes == {"20250101-120000", "20250101-120001"}

TwoRunWorlds ==
    {[Calm EXCEPT !.content = c, !.files = f] : c \in KeywordFiles, f \in FileLists}

InitTwoRuns ==
    /\ pc = "start"
    /\ env \in TwoRunWorlds
    /\ results = <<>>
    /\ fs = <<>>
    /\ call = [fn |-> "run_pipeline", runs |-> 1,
               first |-> [output_directory |-> None, files |-> <<>>]]

\* the first call returned and run_pipeline is called again, on other
\* keywords or the same
CallRunPipelineAgain ==
    /\ pc = "returned"
    /\ call.runs = 1
    /\ \E t \in RunTimes, c \in KeywordFiles :
          env' = [env EXCEPT !.timestamp = t, !.content = c]
    /\ call' = [call EXCEPT !.runs = 2,
                            !.first = [output_directory |-> results.output_directory,
                                       files |-> fs]]
    /\ pc' = "start"
    /\ results' = <<>>
    /\ fs' = fs

NextTwoRuns == Next \/ CallRunPipelineAgain

SpecTwoRuns == InitTwoRuns /\ [][NextTwoRuns]_vars

====
